---------------------------- MODULE Spec2Model ----------------------------
(***************************************************************************)
(* Verification model of the axial-compression resistance engine           *)
(* (clasificacion/clasificacion_seccion.py, resistencia/compresion.py),    *)
(* of the flexural resistance (resistencia/flexion.py), of the combined    *)
(* check (resistencia/interaccion.py), of the data-base manager            *)
(* (core/gestor_base_datos.py) and of the part of the property extractor   *)
(* they read (core/utilidades_perfil.py).                                  *)
(*                                                                         *)
(* Number representation.  The program works on IEEE doubles; the model    *)
(* works on integers in fixed point:                                       *)
(*   - dimensionless quantities (slenderness ratios lambda, the factors    *)
(*     Q, Qs, Qa, Q*Fy/Fe, H, relative errors) in millionths (U = 10^6);   *)
(*   - stresses (Fy, Fe, Fcr) in kPa, i.e. thousandths of a MPa;           *)
(*   - lengths in mm, radii of gyration in mm, Ag in cm2, J in cm4,        *)
(*     Cw in cm6, forces in N.                                             *)
(* Every product/quotient is computed exactly on the integers and rounded  *)
(* to the nearest unit (MulDiv), so that no intermediate value leaves the  *)
(* 32-bit range of the model checker.                                      *)
(***************************************************************************)
EXTENDS Integers, Sequences, FiniteSets, TLC

VARIABLES
    entrada,          \* arguments of the function under direct call, of flexion()
    salida,           \* value returned by the call before ("nada" before it)
    pc,               \* position inside compresion()
    args,             \* arguments of the compresion() call (props, Fy, L, K, caps)
    clasificacion,    \* compresion: local `clasificacion`
    Fe_temp,          \* compresion: local `Fe_temp`
    Q_actual,         \* compresion: local `Q_actual`
    Q_info,           \* compresion: local `Q_info` (Q_nuevo, Qs, Qa, notas)
    iter_Q,           \* compresion: local `iter_Q`
    error_relativo,   \* compresion: local `error_relativo` (None while unbound)
    resultados,       \* dict `resultados` of compresion() or of flexion()
    gestor,           \* the GestorBaseDatos: db_activa, db_aisc, db_cirsoc
    historial         \* the first calculation call and what the caller got from it

vars == <<entrada, salida, pc, args, clasificacion, Fe_temp, Q_actual,
          Q_info, iter_Q, error_relativo, resultados, gestor, historial>>

varsCompresion == <<pc, args, clasificacion, Fe_temp, Q_actual,
                    Q_info, iter_Q, error_relativo, resultados>>

-----------------------------------------------------------------------------
(* Arithmetic                                                              *)

U == 1000 * 1000

None == 0 - 1

Abs(x) == IF x < 0 THEN 0 - x ELSE x

Min2(a, b) == IF a <= b THEN a ELSE b

Max2(a, b) == IF a >= b THEN a ELSE b

\* <<q, r>> with a*b = q*c + r and 0 <= r < c, for 0 <= a < c, b >= 0.
\* (The recursive result is bound by a quantifier so that it is computed once.)
RECURSIVE MulDivQR(_, _, _)
MulDivQR(a, b, c) ==
    IF b = 0 THEN <<0, 0>>
    ELSE CHOOSE qr \in {<<2 * h[1] + ((2 * h[2] + (b % 2) * a) \div c),
                          (2 * h[2] + (b % 2) * a) % c>> :
                            h \in {MulDivQR(a, b \div 2, c)}} : TRUE

\* a*b/c for values: a, b >= 0, c > 0.
MulDivValores(x) ==
    CHOOSE m \in {(x[1] \div x[3]) * x[2] + qr[1]
                    + (IF 2 * qr[2] >= x[3] THEN 1 ELSE 0) :
                        qr \in {MulDivQR(x[1] % x[3], x[2], x[3])}} : TRUE

\* a*b/c rounded to the nearest integer (a, b >= 0, c > 0).
MulDiv(a, b, c) == CHOOSE m \in {MulDivValores(x) : x \in {<<a, b, c>>}} : TRUE

\* Largest r in lo..hi with r*r <= n.
RECURSIVE SqrtBusca(_, _, _)
SqrtBusca(n, lo, hi) ==
    IF lo >= hi THEN lo
    ELSE CHOOSE r \in {IF m * m <= n THEN SqrtBusca(n, m, hi)
                                       ELSE SqrtBusca(n, lo, m - 1) :
                           m \in {(lo + hi + 1) \div 2}} : TRUE

\* One Newton step towards the square root of x from r.
RaizPaso(x, r, redondeo) ==
    CHOOSE s \in {(v[2] + MulDiv(v[1], U, v[2]) + redondeo) \div 2 :
                      v \in {<<x, r>>}} : TRUE

\* Square root of a fixed-point number (x and the result in millionths):
\* integer square root refined by two Newton steps.
Raiz(x) ==
    CHOOSE s \in {IF v[1] <= 0 THEN 0
                  ELSE RaizPaso(v[1], RaizPaso(v[1], Max2(1, SqrtBusca(v[1], 0, 46340)) * 1000, 0), 1) :
                      v \in {<<x>>}} : TRUE

\* round(): x to the nearest multiple of m (m even), ties to even.
Redondear(x, m) ==
    LET q == x \div m
        r == x % m
    IN  IF 2 * r > m \/ (2 * r = m /\ q % 2 = 1) THEN (q + 1) * m ELSE q * m

\* round(x, 3) of a value in millionths.
Round3(x) == Redondear(x, 1000)

\* round(x, 2) of a value in thousandths.
Round2(x) == Redondear(x, 10)

-----------------------------------------------------------------------------
(* Classification of one plate element                                     *)

\* The same decision taken on the values rounded for the report.
ClasificarElementoRedondeado(nombre, lambda_val, lambda_p, lambda_r) ==
    [nombre   |-> nombre,
     lambda   |-> Round3(lambda_val),
     lambda_p |-> IF lambda_p # None THEN Round3(lambda_p) ELSE None,
     lambda_r |-> Round3(lambda_r),
     clase    |-> IF lambda_p # None /\ Round3(lambda_val) <= Round3(lambda_p)
                  THEN "COMPACTA"
                  ELSE IF Round3(lambda_val) <= Round3(lambda_r)
                       THEN "NO_COMPACTA"
                       ELSE "ESBELTA"]

_clasificar_elemento(nombre, lambda_val, lambda_p, lambda_r) ==
    [nombre   |-> nombre,
     lambda   |-> Round3(lambda_val),
     lambda_p |-> IF lambda_p # None THEN Round3(lambda_p) ELSE None,
     lambda_r |-> Round3(lambda_r),
     clase    |-> IF lambda_p # None /\ lambda_val <= lambda_p
                  THEN "COMPACTA"
                  ELSE IF lambda_val <= lambda_r
                       THEN "NO_COMPACTA"
                       ELSE "ESBELTA"]

-----------------------------------------------------------------------------
(* Limits lambda_p, lambda_r (Table B4.1).  E in MPa, Fy in kPa.           *)

\* E/Fy in millionths.
EsobreFy(E, Fy) == MulDiv(E * 1000, U, Fy)

\* np.sqrt(E / Fy) in millionths.
RaizEFy(E, Fy) == Raiz(EsobreFy(E, Fy))

\* np.sqrt(Fy / E) in units of 10^-8 (the reciprocal of sqrt(E/Fy)); the
\* finer unit keeps the relative precision of a value near 0.035.
RaizFyE(E, Fy) == MulDiv(100 * U, U, RaizEFy(E, Fy))

\* np.sqrt(E / Fcr) in millionths (Fcr in kPa, Fcr > 0).
RaizEFcr(E, Fcr) == 10 * Raiz(MulDiv(E * 10, U, Fcr))

_limites_ala_doble_t(E, Fy) ==
    <<MulDiv(38, RaizEFy(E, Fy), 100), RaizEFy(E, Fy)>>

_limites_alma_doble_t(E, Fy) ==
    <<MulDiv(376, RaizEFy(E, Fy), 100), MulDiv(570, RaizEFy(E, Fy), 100)>>

_limites_ala_canal(E, Fy) ==
    <<MulDiv(38, RaizEFy(E, Fy), 100), RaizEFy(E, Fy)>>

_limites_alma_canal(E, Fy) ==
    <<MulDiv(376, RaizEFy(E, Fy), 100), MulDiv(570, RaizEFy(E, Fy), 100)>>

_limites_pata_angular(E, Fy) ==
    <<MulDiv(38, RaizEFy(E, Fy), 100), MulDiv(45, RaizEFy(E, Fy), 100)>>

_limites_ala_perfil_t(E, Fy) ==
    <<MulDiv(38, RaizEFy(E, Fy), 100), RaizEFy(E, Fy)>>

_limites_alma_perfil_t(E, Fy) ==
    <<None, MulDiv(75, RaizEFy(E, Fy), 100)>>

_limites_tubo_circular(E, Fy) ==
    <<None, MulDiv(11, EsobreFy(E, Fy), 100)>>

_limites_tubo_rectangular_pared(E, Fy) ==
    <<None, MulDiv(140, RaizEFy(E, Fy), 100)>>

-----------------------------------------------------------------------------
(* Reduction factors of slender elements (section E7)                      *)

\* Branch formulas of the unstiffened-element factors, evaluated at any b/t.
QsAlaTransicion(bt_ratio, E, Fy) ==
    1415000 - MulDiv(MulDiv(74, bt_ratio, 100), RaizFyE(E, Fy), 100 * U)

QsAlaReducido(bt_ratio, E, Fy) ==
    MulDiv(MulDiv(MulDiv(69, EsobreFy(E, Fy), 100), U, bt_ratio), U, bt_ratio)

\* The transition of the angle leg written with the intercept of the flange.
QsAngularTransicionErronea(bt_ratio, E, Fy) ==
    1415000 - MulDiv(MulDiv(76, bt_ratio, 100), RaizFyE(E, Fy), 100 * U)

QsAngularTransicion(bt_ratio, E, Fy) ==
    1340000 - MulDiv(MulDiv(76, bt_ratio, 100), RaizFyE(E, Fy), 100 * U)

QsAngularReducido(bt_ratio, E, Fy) ==
    MulDiv(MulDiv(MulDiv(53, EsobreFy(E, Fy), 100), U, bt_ratio), U, bt_ratio)

QsStemTransicion(dt_ratio, E, Fy) ==
    1908000 - MulDiv(MulDiv(122, dt_ratio, 100), RaizFyE(E, Fy), 100 * U)

QsStemReducido(dt_ratio, E, Fy) ==
    MulDiv(MulDiv(MulDiv(69, EsobreFy(E, Fy), 100), U, dt_ratio), U, dt_ratio)

_calcular_qs_ala_laminada(bt_ratio, E, Fy) ==
    IF bt_ratio <= MulDiv(56, RaizEFy(E, Fy), 100) THEN U
    ELSE IF bt_ratio < MulDiv(103, RaizEFy(E, Fy), 100)
         THEN QsAlaTransicion(bt_ratio, E, Fy)
         ELSE QsAlaReducido(bt_ratio, E, Fy)

_calcular_qs_angular(bt_ratio, E, Fy) ==
    IF bt_ratio <= MulDiv(45, RaizEFy(E, Fy), 100) THEN U
    ELSE IF bt_ratio <= MulDiv(91, RaizEFy(E, Fy), 100)
         THEN QsAngularTransicion(bt_ratio, E, Fy)
         ELSE QsAngularReducido(bt_ratio, E, Fy)

_calcular_qs_stem_perfil_t(dt_ratio, E, Fy) ==
    IF dt_ratio <= MulDiv(75, RaizEFy(E, Fy), 100) THEN U
    ELSE IF dt_ratio <= MulDiv(103, RaizEFy(E, Fy), 100)
         THEN QsStemTransicion(dt_ratio, E, Fy)
         ELSE QsStemReducido(dt_ratio, E, Fy)

_calcular_q_tubo_circular(Dt_ratio, E, Fy) ==
    IF Dt_ratio <= MulDiv(11, EsobreFy(E, Fy), 100) THEN U
    ELSE MulDiv(MulDiv(38, EsobreFy(E, Fy), 1000), U, Dt_ratio)

\* (1 - 0.34*factor)*factor for factor = sqrt(E/f)/(b/t), in millionths.
AnchoEfectivoRel(factor) == MulDiv(U - MulDiv(34, factor, 100), factor, U)

_calcular_qa_hss_pared(bt_ratio, E, Fcr) ==
    IF bt_ratio < MulDiv(140, RaizEFcr(E, Fcr), 100) THEN U
    ELSE LET factor == MulDiv(RaizEFcr(E, Fcr), U, bt_ratio)
             be_b   == AnchoEfectivoRel(factor)
         IN  Min2(Max2(be_b, 0), U)

\* b in mm (b > 0); be in thousandths of a mm.
_calcular_qa_alma(hw_tw, E, Fcr, b, A_total) ==
    IF hw_tw < MulDiv(149, RaizEFcr(E, Fcr), 100) THEN U
    ELSE LET factor == MulDiv(RaizEFcr(E, Fcr), U, hw_tw)
             be     == MulDiv(b * 1000, AnchoEfectivoRel(factor), U)
         IN  MulDiv(Min2(be, b * 1000), U, b * 1000)

-----------------------------------------------------------------------------
(* Section classification.                                                 *)
(* props is the dict of extraer_propiedades() flattened to one record:     *)
(*   tipo, familia; seccion: bf_2tf, hw_tw, b_t, d_tw, D_t, h_tw (None     *)
(*   when the key is absent), tf; basicas: d, Ag; flexion: rx, ry, iv;     *)
(*   torsion: J, Cw; centro_corte: xo, ro, H.                              *)

TiposDobleT == {"W", "M", "HP", "S", "IPE", "IPN", "IPB", "IPBl", "IPBv"}

TiposCanal == {"C", "MC", "UPN"}

TiposPerfilT == {"T", "WT", "MT", "ST"}

TiposTuboCirc == {"TUBO CIRC.", "PIPE"}

TiposTuboRect == {"TUBO CUAD.", "TUBO RECT.", "HSS"}

\* dict.get(key, default) on a key that may be absent.
Get(valor, default) == IF valor = None THEN default ELSE valor

\* Index of a class in the order COMPACTA < NO_COMPACTA < ESBELTA.
Rango(clase) ==
    IF clase = "ESBELTA" THEN 2 ELSE IF clase = "NO_COMPACTA" THEN 1 ELSE 0

\* Elements classified for a section, as a function name -> element record.
ElementosDe(props, Fy, E) ==
    LET tipo == props.tipo
        par(nombre) ==
            IF tipo \in TiposDobleT
            THEN IF nombre = "ala" THEN _limites_ala_doble_t(E, Fy)
                                   ELSE _limites_alma_doble_t(E, Fy)
            ELSE IF tipo \in TiposCanal
            THEN IF nombre = "ala" THEN _limites_ala_canal(E, Fy)
                                   ELSE _limites_alma_canal(E, Fy)
            ELSE IF tipo = "L" THEN _limites_pata_angular(E, Fy)
            ELSE IF tipo \in TiposPerfilT
            THEN IF nombre = "ala" THEN _limites_ala_perfil_t(E, Fy)
                                   ELSE _limites_alma_perfil_t(E, Fy)
            ELSE IF tipo \in TiposTuboCirc THEN _limites_tubo_circular(E, Fy)
            ELSE _limites_tubo_rectangular_pared(E, Fy)
        lam(nombre) ==
            CASE nombre = "ala"    -> props.bf_2tf
              [] nombre = "alma"   -> props.hw_tw
              [] nombre = "pata"   -> props.b_t
              [] nombre = "stem"   -> Get(props.d_tw, Get(props.hw_tw, 0))
              [] nombre = "pared"  -> Get(props.D_t, 0)
              [] nombre = "flange" -> Get(props.b_t, 0)
              [] nombre = "web"    -> Get(props.h_tw, 0)
        dom ==
            IF tipo \in TiposDobleT \/ tipo \in TiposCanal THEN {"ala", "alma"}
            ELSE IF tipo = "L" THEN {"pata"}
            ELSE IF tipo \in TiposPerfilT THEN {"ala", "stem"}
            ELSE IF tipo \in TiposTuboCirc
            THEN IF Get(props.D_t, 0) > 0 THEN {"pared"} ELSE {}
            ELSE IF tipo \in TiposTuboRect
            THEN (IF Get(props.b_t, 0) > 0 THEN {"flange"} ELSE {})
                 \cup (IF tipo \in {"TUBO RECT.", "HSS"} /\ Get(props.h_tw, 0) > 0
                       THEN {"web"} ELSE {})
            ELSE {}
    IN  [n \in dom |-> _clasificar_elemento(n, lam(n), par(n)[1], par(n)[2])]

\* Advisory notes appended by clasificar_seccion, by family.
AdvertenciasDe(props) ==
    LET tipo == props.tipo
    IN  IF tipo = "L" THEN <<"angulo_lambda_p_conservador">>
        ELSE IF tipo \in TiposPerfilT THEN <<"stem_sin_lambda_p">>
        ELSE IF tipo \in TiposTuboCirc
        THEN (IF Get(props.D_t, 0) > 0 THEN <<>> ELSE <<"D_t_no_disponible">>)
             \o <<"tubo_circular_sin_lambda_p">>
        ELSE IF tipo \in TiposTuboRect THEN <<"hss_sin_lambda_p">>
        ELSE <<>>

\* Every type taken as supported.
TipoSoportadoCualquiera(tipo) == TRUE

TipoSoportado(tipo) ==
    tipo \in TiposDobleT \cup TiposCanal \cup {"L"} \cup TiposPerfilT
             \cup TiposTuboCirc \cup TiposTuboRect

\* Overall class reported as the best class among the elements.
ClaseGlobalMejor(elementos) ==
    IF \A n \in DOMAIN elementos : elementos[n].clase = "ESBELTA"
       /\ DOMAIN elementos # {}
    THEN "ESBELTA"
    ELSE IF \A n \in DOMAIN elementos : elementos[n].clase # "COMPACTA"
            /\ DOMAIN elementos # {}
         THEN "NO_COMPACTA"
         ELSE "COMPACTA"

ClaseGlobal(elementos) ==
    IF \E n \in DOMAIN elementos : elementos[n].clase = "ESBELTA"
    THEN "ESBELTA"
    ELSE IF \E n \in DOMAIN elementos : elementos[n].clase = "NO_COMPACTA"
         THEN "NO_COMPACTA"
         ELSE "COMPACTA"

\* The result dict of clasificar_seccion for the classified elements.
SeccionClasificada(props, elementos) ==
    [ok            |-> TRUE,
     elementos     |-> elementos,
     clase_seccion |-> ClaseGlobal(elementos),
     es_esbelta    |-> ClaseGlobal(elementos) = "ESBELTA",
     advertencias  |-> AdvertenciasDe(props)]

\* ok = FALSE stands for the ValueError raised for an unsupported type.
clasificar_seccion(props, Fy, E) ==
    IF ~TipoSoportado(props.tipo)
    THEN [ok |-> FALSE, elementos |-> <<>>, clase_seccion |-> "",
          es_esbelta |-> FALSE, advertencias |-> <<>>]
    ELSE SeccionClasificada(props, ElementosDe(props, Fy, E))

-----------------------------------------------------------------------------
(* calcular_Q: Q = Qs * Qa for sections with slender elements.             *)
(* Fcr in kPa, or None when the caller gives none.                         *)

EsEsbelto(c, nombre) ==
    nombre \in DOMAIN c.elementos /\ c.elementos[nombre].clase = "ESBELTA"

\* Only the lower limit of Qs applied.
LimitarQsSoloInferior(Qs) ==
    IF Qs < 350000 THEN [Qs |-> 350000, notas |-> <<"Qs_limitado_a_0.35">>]
    ELSE [Qs |-> Qs, notas |-> <<>>]

\* Limit 0.35 <= Qs <= 0.76 with the note it records.
LimitarQs(Qs) ==
    IF Qs < 350000 THEN [Qs |-> 350000, notas |-> <<"Qs_limitado_a_0.35">>]
    ELSE IF Qs > 760000 THEN [Qs |-> 760000, notas |-> <<"Qs_limitado_a_0.76">>]
    ELSE [Qs |-> Qs, notas |-> <<>>]

\* Qa of the web computed whenever Fcr is given, slender web or not.
FactoresAlaAlmaSiempreQa(props, Fy, E, Fcr, c) ==
    [Qs    |-> IF EsEsbelto(c, "ala")
               THEN _calcular_qs_ala_laminada(props.bf_2tf, E, Fy) ELSE U,
     Qa    |-> IF Fcr # None
               THEN _calcular_qa_alma(props.hw_tw, E, Fcr,
                                      props.d - 2 * props.tf, props.Ag)
               ELSE U,
     notas |-> IF EsEsbelto(c, "ala") THEN <<"ala_esbelta">> ELSE <<>>]

\* Qs, Qa and notes before the limit on Qs: doble T and canal.
FactoresAlaAlma(props, Fy, E, Fcr, c) ==
    LET alaEsb  == EsEsbelto(c, "ala")
        almaEsb == EsEsbelto(c, "alma")
        hw      == props.d - 2 * props.tf
    IN  [Qs    |-> IF alaEsb THEN _calcular_qs_ala_laminada(props.bf_2tf, E, Fy)
                   ELSE U,
         Qa    |-> IF almaEsb /\ Fcr # None
                   THEN _calcular_qa_alma(props.hw_tw, E, Fcr, hw, props.Ag)
                   ELSE U,
         notas |-> (IF alaEsb THEN <<"ala_esbelta">> ELSE <<>>)
                   \o (IF almaEsb
                       THEN IF Fcr = None THEN <<"ADVERTENCIA_Fcr_no_proporcionado">>
                            ELSE <<"alma_esbelta">>
                       ELSE <<>>)]

FactoresAngular(props, Fy, E, Fcr, c) ==
    LET pataEsb == c.elementos["pata"].clase = "ESBELTA"
    IN  [Qs    |-> IF pataEsb THEN _calcular_qs_angular(props.b_t, E, Fy) ELSE U,
         Qa    |-> U,
         notas |-> IF pataEsb THEN <<"pata_esbelta">> ELSE <<>>]

FactoresPerfilT(props, Fy, E, Fcr, c) ==
    LET alaEsb  == EsEsbelto(c, "ala")
        stemEsb == EsEsbelto(c, "stem")
        dt      == Get(props.d_tw, Get(props.hw_tw, 0))
        Qs_ala  == IF alaEsb THEN _calcular_qs_ala_laminada(props.bf_2tf, E, Fy)
                   ELSE U
    IN  [Qs    |-> IF stemEsb /\ dt > 0
                   THEN Min2(Qs_ala, _calcular_qs_stem_perfil_t(dt, E, Fy))
                   ELSE Qs_ala,
         Qa    |-> U,
         notas |-> (IF alaEsb THEN <<"ala_esbelta">> ELSE <<>>)
                   \o (IF stemEsb /\ dt > 0 THEN <<"stem_esbelta">> ELSE <<>>)]

FactoresTuboCirc(props, Fy, E, Fcr, c) ==
    LET Dt  == Get(props.D_t, 0)
        esb == EsEsbelto(c, "pared") /\ Dt > 0
    IN  [Qs    |-> IF esb THEN _calcular_q_tubo_circular(Dt, E, Fy) ELSE U,
         Qa    |-> U,
         notas |-> IF esb THEN <<"tubo_circular_esbelta">> ELSE <<>>]

FactoresTuboRect(props, Fy, E, Fcr, c) ==
    LET bt     == Get(props.b_t, 0)
        ht     == Get(props.h_tw, 0)
        flaEsb == EsEsbelto(c, "flange") /\ Fcr # None /\ bt > 0
        webEsb == EsEsbelto(c, "web") /\ Fcr # None /\ ht > 0
        Qa_fla == IF flaEsb THEN Min2(U, _calcular_qa_hss_pared(bt, E, Fcr)) ELSE U
        Qa_min == IF webEsb THEN Min2(Qa_fla, _calcular_qa_hss_pared(ht, E, Fcr))
                  ELSE Qa_fla
        sinFcr == Fcr = None /\ Qa_min < U
    IN  [Qs    |-> U,
         Qa    |-> IF sinFcr THEN U ELSE Qa_min,
         notas |-> (IF flaEsb THEN <<"flange_esbelta">> ELSE <<>>)
                   \o (IF webEsb THEN <<"web_esbelta">> ELSE <<>>)
                   \o (IF sinFcr THEN <<"ADVERTENCIA_Fcr_no_proporcionado">>
                       ELSE <<>>)]

\* Qs, Qa and notes before the limit on Qs, by family.
FactoresDe(props, Fy, E, Fcr, c) ==
    IF props.tipo \in TiposDobleT \/ props.tipo \in TiposCanal
    THEN FactoresAlaAlma(props, Fy, E, Fcr, c)
    ELSE IF props.tipo = "L" THEN FactoresAngular(props, Fy, E, Fcr, c)
    ELSE IF props.tipo \in TiposPerfilT THEN FactoresPerfilT(props, Fy, E, Fcr, c)
    ELSE IF props.tipo \in TiposTuboCirc THEN FactoresTuboCirc(props, Fy, E, Fcr, c)
    ELSE FactoresTuboRect(props, Fy, E, Fcr, c)

\* Limit on Qs and Q = Qs * Qa.
FactorTotal(f, lim) ==
    [ok    |-> TRUE,
     Q     |-> MulDiv(lim.Qs, f.Qa, U),
     Qs    |-> lim.Qs,
     Qa    |-> f.Qa,
     notas |-> f.notas \o lim.notas]

\* calcular_Q once the section is known to be slender.
FactorEsbelta(f) == FactorTotal(f, LimitarQs(f.Qs))

\* The reduction applied whatever the class of the section.
FactorSinAtajo(props, Fy, E, Fcr, c) ==
    IF ~c.ok
    THEN [ok |-> FALSE, Q |-> 0, Qs |-> 0, Qa |-> 0, notas |-> <<>>]
    ELSE FactorEsbelta(FactoresDe(props, Fy, E, Fcr, c))

\* calcular_Q after its call of clasificar_seccion returned c.
FactorClasificada(props, Fy, E, Fcr, c) ==
    IF ~c.ok
    THEN [ok |-> FALSE, Q |-> 0, Qs |-> 0, Qa |-> 0, notas |-> <<>>]
    ELSE IF ~c.es_esbelta
    THEN [ok |-> TRUE, Q |-> U, Qs |-> U, Qa |-> U,
          notas |-> <<"seccion_no_esbelta">>]
    ELSE FactorEsbelta(FactoresDe(props, Fy, E, Fcr, c))

\* ok = FALSE stands for the ValueError raised for an unsupported type.
calcular_Q(props, Fy, E, Fcr) ==
    FactorClasificada(props, Fy, E, Fcr, clasificar_seccion(props, Fy, E))

-----------------------------------------------------------------------------
(* Elastic buckling stresses and critical stress (compresion.py)           *)

E_ACERO == 200000

G_ACERO == 77200

PHI_C == 900000

\* np.pi**2 in millionths.
Pi2 == 9869604

\* (Fe [kPa], esbeltez [millionths]) for KL, r in mm.
_fe_flexional(KL, r) ==
    LET esbeltez == MulDiv(KL, U, r)
        Pi2E     == MulDiv(Pi2, E_ACERO * 1000, U)
    IN  <<MulDiv(MulDiv(Pi2E, U, esbeltez), U, esbeltez), esbeltez>>

\* Fe_z [kPa]; J in cm4, Cw in cm6, Kz in thousandths, Lz in mm, Ag in cm2,
\* ro in mm.  The numerator is carried in units of 10^4 N.mm2.
_fe_torsional(J, Cw, Kz, Lz, Ag, ro) ==
    LET KL       == MulDiv(Kz, Lz, 1000)
        Pi2E     == MulDiv(Pi2, E_ACERO, U)
        alabeo   == MulDiv(MulDiv(Pi2E, Cw, KL), 100, KL)
        torsion  == G_ACERO * J
    IN  MulDiv(alabeo + torsion, 100000, Ag * ro * ro)

\* Fe_yz [kPa] of the coupled flexural-torsional mode; H in millionths.
_fe_flexotorsional_canal(Fe_y, Fe_z, H) ==
    LET suma == Fe_y + Fe_z
        prod == MulDiv(MulDiv(4 * Fe_y, U, suma), MulDiv(Fe_z, U, suma), U)
        disc == U - MulDiv(prod, H, U)
    IN  MulDiv(MulDiv(suma, U, 2 * H), U - Raiz(disc), U)

\* exp(-y) in millionths for y >= 0 in millionths: alternating Taylor series.
RECURSIVE ExpNegSerie(_, _, _, _)
ExpNegSerie(y, k, term, suma) ==
    CHOOSE e \in {IF t = 0 THEN suma
                  ELSE ExpNegSerie(y, k + 1, t,
                                   IF k % 2 = 1 THEN suma - t ELSE suma + t) :
                      t \in {MulDiv(term, y, k * U)}} : TRUE

\* 0.658 ** ratio = exp(-0.41855035 * ratio), ratio in millionths.
Pow0658(ratio) ==
    CHOOSE p \in {ExpNegSerie(y, 1, U, U) :
                      y \in {MulDiv(ratio, 41855035, 100 * U)}} : TRUE

\* Q*Fy/Fe in millionths.
RatioQFyFe(Fe, Fy, Q) == MulDiv(MulDiv(Q, Fy, U), U, Fe)

FcrInelastico(Fe, Fy, Q) ==
    MulDiv(Pow0658(RatioQFyFe(Fe, Fy, Q)), MulDiv(Q, Fy, U), U)

FcrElastico(Fe) == MulDiv(877, Fe, 1000)

\* The inelastic branch taken only below 2.25.
CalcularFcrLimiteEstricto(Fe, Fy, Q) ==
    IF RatioQFyFe(Fe, Fy, Q) < 2250000
    THEN FcrInelastico(Fe, Fy, Q)
    ELSE FcrElastico(Fe)

_calcular_Fcr(Fe, Fy, Q) ==
    IF RatioQFyFe(Fe, Fy, Q) <= 2250000
    THEN FcrInelastico(Fe, Fy, Q)
    ELSE FcrElastico(Fe)

-----------------------------------------------------------------------------
(* compresion(): global buckling (PASO 7) as a function of the arguments   *)

\* Lz after PASO 3.
LzAjustado(a) == IF a.Lz = None THEN Max2(a.Lx, a.Ly) ELSE a.Lz

KxLx(a) == MulDiv(a.Kx, a.Lx, 1000)

KyLy(a) == MulDiv(a.Ky, a.Ly, 1000)

KzLz(a) == MulDiv(a.Kz, LzAjustado(a), 1000)

\* The closed form chosen on H alone, whatever the offset xo.
HDisponibleSoloH(p) == p.H # None /\ p.H > 0

HDisponible(p) == p.H # None /\ p.H > 0 /\ p.xo > 0

\* Key of the smallest value, the first in insertion order among equals.
PrimerMinimo(orden, modos) ==
    LET minimo == CHOOSE v \in {modos[k] : k \in DOMAIN modos} :
                      \A k \in DOMAIN modos : v <= modos[k]
        i      == CHOOSE j \in 1..Len(orden) :
                      /\ modos[orden[j]] = minimo
                      /\ \A h \in 1..(j - 1) : modos[orden[h]] # minimo
    IN  orden[i]

\* Governing mode reported as the mode with the largest Fe.
ModoGobernanteMaximo(orden, modos) ==
    LET maximo == CHOOSE v \in {modos[k] : k \in DOMAIN modos} :
                      \A k \in DOMAIN modos : v >= modos[k]
        i      == CHOOSE j \in 1..Len(orden) : modos[orden[j]] = maximo
    IN  [Fe |-> maximo, modo |-> orden[i]]

\* Fe = min(modos_Fe.values()); modo_governa = min(modos_Fe, key=modos_Fe.get).
ModoGobernante(orden, modos) ==
    LET modo == PrimerMinimo(orden, modos)
    IN  [Fe |-> modos[modo], modo |-> modo]

PandeoDobleT(a) ==
    LET p   == a.props
        fx  == _fe_flexional(KxLx(a), p.rx)
        fy  == _fe_flexional(KyLy(a), p.ry)
        Fez == _fe_torsional(p.J, p.Cw, a.Kz, LzAjustado(a), p.Ag, p.ro)
        modos == [m \in {"Flexional_X", "Flexional_Y", "Torsional_Z"} |->
                     IF m = "Flexional_X" THEN fx[1]
                     ELSE IF m = "Flexional_Y" THEN fy[1] ELSE Fez]
        g   == ModoGobernante(<<"Flexional_X", "Flexional_Y", "Torsional_Z">>, modos)
    IN  [ok |-> TRUE, modos_Fe |-> modos, Fe |-> g.Fe, modo |-> g.modo,
         esbeltez_max |-> Max2(fx[2], fy[2]), advertencias |-> <<>>]

PandeoCanal(a) ==
    LET p     == a.props
        fx    == _fe_flexional(KxLx(a), p.rx)
        fy    == _fe_flexional(KyLy(a), p.ry)
        Fez   == _fe_torsional(p.J, p.Cw, a.Kz, LzAjustado(a), p.Ag, p.ro)
        Feyzt == IF HDisponible(p) THEN _fe_flexotorsional_canal(fy[1], Fez, p.H)
                 ELSE fy[1]
        modos == [m \in {"Flexional_X", "Flexo_torsional_YZ"} |->
                     IF m = "Flexional_X" THEN fx[1] ELSE Feyzt]
        g     == ModoGobernante(<<"Flexional_X", "Flexo_torsional_YZ">>, modos)
    IN  [ok |-> TRUE, modos_Fe |-> modos, Fe |-> g.Fe, modo |-> g.modo,
         esbeltez_max |-> Max2(fx[2], fy[2]),
         advertencias |-> IF HDisponible(p) THEN <<>>
                          ELSE <<"xo_H_no_disponibles">>]

\* The angle checked on the two flexural lengths only.
PandeoAngularSinKzLz(a) ==
    LET p  == a.props
        fv == _fe_flexional(Max2(KxLx(a), KyLy(a)), p.iv)
    IN  [ok |-> TRUE, modos_Fe |-> [m \in {"Flexional_iv"} |-> fv[1]],
         Fe |-> fv[1], modo |-> "Flexional_iv",
         esbeltez_max |-> fv[2], advertencias |-> <<>>]

PandeoAngular(a) ==
    LET p  == a.props
        KL == Max2(Max2(KxLx(a), KyLy(a)), KzLz(a))
        fv == _fe_flexional(KL, p.iv)
    IN  [ok |-> TRUE, modos_Fe |-> [m \in {"Flexional_iv"} |-> fv[1]],
         Fe |-> fv[1], modo |-> "Flexional_iv",
         esbeltez_max |-> fv[2], advertencias |-> <<>>]

\* A float division by 0.0 in the Fe formulas of the family (KL / r, or the
\* division by Ag * ro**2 and by (Kz * Lz)**2): ZeroDivisionError.
DivisionPorCero(a) ==
    IF a.props.familia = "ANGULAR" THEN a.props.iv = 0
    ELSE IF a.props.familia \in {"DOBLE_T", "CANAL"}
    THEN \/ a.props.rx = 0 \/ a.props.ry = 0
         \/ a.props.Ag = 0 \/ a.props.ro = 0
         \/ KzLz(a) = 0
    ELSE FALSE

\* ok = FALSE stands for the ValueError "Familia no implementada" and for a
\* ZeroDivisionError.
PandeoGlobal(a) ==
    IF DivisionPorCero(a)
    THEN [ok |-> FALSE, modos_Fe |-> <<>>, Fe |-> 0, modo |-> "",
          esbeltez_max |-> 0, advertencias |-> <<>>]
    ELSE IF a.props.familia = "DOBLE_T" THEN PandeoDobleT(a)
    ELSE IF a.props.familia = "CANAL" THEN PandeoCanal(a)
    ELSE IF a.props.familia = "ANGULAR" THEN PandeoAngular(a)
    ELSE [ok |-> FALSE, modos_Fe |-> <<>>, Fe |-> 0, modo |-> "",
          esbeltez_max |-> 0, advertencias |-> <<>>]

\* The trial Fe taken from the two flexural modes only.
FeTemporalSoloFlexional(a) ==
    LET p == a.props
    IN  IF p.familia \in {"DOBLE_T", "CANAL"}
        THEN Min2(_fe_flexional(KxLx(a), p.rx)[1],
                  _fe_flexional(KyLy(a), p.ry)[1])
        ELSE IF p.familia = "ANGULAR"
        THEN _fe_flexional(Max2(Max2(KxLx(a), KyLy(a)), KzLz(a)), p.iv)[1]
        ELSE 1000 * 1000

\* Trial Fe computed before the Q iteration (PASO 6.5); 1000 MPa by default.
FeTemporal(a) ==
    LET p == a.props
    IN  IF p.familia = "DOBLE_T"
        THEN Min2(Min2(_fe_flexional(KxLx(a), p.rx)[1],
                       _fe_flexional(KyLy(a), p.ry)[1]),
                  _fe_torsional(p.J, p.Cw, a.Kz, LzAjustado(a), p.Ag, p.ro))
        ELSE IF p.familia = "CANAL"
        THEN LET Fe_y == _fe_flexional(KyLy(a), p.ry)[1]
                 Fe_z == _fe_torsional(p.J, p.Cw, a.Kz, LzAjustado(a), p.Ag, p.ro)
             IN  Min2(_fe_flexional(KxLx(a), p.rx)[1],
                      IF HDisponible(p)
                      THEN _fe_flexotorsional_canal(Fe_y, Fe_z, p.H)
                      ELSE Fe_y)
        ELSE IF p.familia = "ANGULAR"
        THEN _fe_flexional(Max2(Max2(KxLx(a), KyLy(a)), KzLz(a)), p.iv)[1]
        ELSE 1000 * 1000

-----------------------------------------------------------------------------
(* Inputs                                                                  *)

MAX_ITER_Q_DEFECTO == 5

TOL_Q_DEFECTO == 10000

\* Largest iteration cap max_iter_Q tried.
MaxCap == 5

FAMILIAS(tipo) ==
    IF tipo \in TiposDobleT THEN "DOBLE_T"
    ELSE IF tipo \in TiposCanal THEN "CANAL"
    ELSE IF tipo = "L" THEN "ANGULAR"
    ELSE IF tipo \in TiposPerfilT THEN "PERFIL_T"
    ELSE IF tipo \in TiposTuboCirc THEN "TUBO_CIRC"
    ELSE IF tipo \in {"TUBO CUAD.", "HSS"} THEN "TUBO_CUAD"
    ELSE IF tipo = "TUBO RECT." THEN "TUBO_RECT"
    ELSE "DESCONOCIDA"

\* A props record: plate ratios s and geometry g.
Props(tipo, s, g) ==
    [tipo |-> tipo, familia |-> FAMILIAS(tipo),
     bf_2tf |-> s[1], hw_tw |-> s[2], b_t |-> s[3], d_tw |-> s[4],
     D_t |-> s[5], h_tw |-> s[6],
     d |-> g.d, tf |-> g.tf, Ag |-> g.Ag, rx |-> g.rx, ry |-> g.ry, iv |-> g.iv,
     J |-> g.J, Cw |-> g.Cw, xo |-> g.xo, ro |-> g.ro, H |-> g.H]

GeoDobleT ==
    [d |-> 500, tf |-> 20, Ag |-> 310, rx |-> 140, ry |-> 70, iv |-> None,
     J |-> 240, Cw |-> 1000000, xo |-> 0, ro |-> 157, H |-> U]

GeosCanal ==
    {[d |-> 380, tf |-> 16, Ag |-> 95, rx |-> 140, ry |-> 40, iv |-> None,
      J |-> 110, Cw |-> 130000, xo |-> xh[1], ro |-> 160, H |-> xh[2]] :
        xh \in {<<40, 937500>>, <<0, U>>}}

GeoAngular ==
    [d |-> None, tf |-> None, Ag |-> 24, rx |-> 39, ry |-> 39, iv |-> 25,
     J |-> 13, Cw |-> 0, xo |-> 29, ro |-> 55, H |-> None]

GeoPerfilT ==
    [d |-> 250, tf |-> 20, Ag |-> 155, rx |-> 75, ry |-> 70, iv |-> None,
     J |-> 120, Cw |-> 5000, xo |-> 0, ro |-> 0, H |-> None]

GeoTubo ==
    [d |-> 200, tf |-> None, Ag |-> 60, rx |-> 68, ry |-> 68, iv |-> None,
     J |-> 5600, Cw |-> 0, xo |-> 0, ro |-> 68, H |-> U]

\* Plate ratios (millionths) on both sides of every limit for Fy = 250, 345 MPa.
RatiosAla == {9 * U, 20 * U, 28700000, 35 * U, 60 * U}

RatiosAlma == {50 * U, 170 * U, 250 * U}

RatiosPata == {8 * U, 12500000, 20 * U, 30 * U}

RatiosStem == {15 * U, 22 * U, 40 * U}

\* Sections as extraer_propiedades() delivers them: tubes carry no D_t, b_t, h_tw.
PerfilesExtraidos ==
    {Props("W", <<al, am, None, None, None, None>>, GeoDobleT) :
        al \in RatiosAla, am \in RatiosAlma}
    \cup {Props("C", <<al, am, None, None, None, None>>, g) :
        al \in {20 * U, 35 * U}, am \in {50 * U, 170 * U}, g \in GeosCanal}
    \cup {Props("L", <<None, None, bt, None, None, None>>, GeoAngular) :
        bt \in RatiosPata}
    \cup {Props("WT", <<al, None, None, dt, None, None>>, GeoPerfilT) :
        al \in {9 * U, 35 * U}, dt \in RatiosStem}
    \cup {Props(t, <<None, None, None, None, None, None>>, GeoTubo) :
        t \in {"PIPE", "TUBO CUAD."}}

\* float(valor), or default for a NaN (None here) or a string.
a_flotante(valor, default) == IF valor = None THEN default ELSE valor

\* props['disponibles'] as extraer_propiedades() writes it: one fixed list
\* per family, whatever the row holds.
Disponibles(familia) ==
    IF familia \in {"DOBLE_T", "CANAL"}
    THEN {"d", "bf", "tf", "tw", "hw", "Ag", "Ix", "Iy", "Sx", "Sy", "rx", "ry",
          "Zx", "Zy", "J", "Cw"}
             \cup (IF familia = "CANAL" THEN {"x", "eo"} ELSE {})
    ELSE IF familia = "ANGULAR"
    THEN {"b", "t", "Ag", "Ix", "rx", "Iv", "iv", "Iz", "J", "Cw"}
    ELSE IF familia = "PERFIL_T"
    THEN {"d", "bf", "tf", "Ag", "Ix", "Iy", "Sx", "Sy", "rx", "ry", "Zx", "Zy",
          "J", "Cw"}
    ELSE IF familia \in {"TUBO_CIRC", "TUBO_CUAD"}
    THEN {"d", "t", "Ag", "Ix", "rx", "J", "Cw"}
    ELSE IF familia = "TUBO_RECT"
    THEN {"d", "bf", "t", "Ag", "Ix", "Iy", "Sx", "Sy", "rx", "ry", "Zx", "Zy",
          "J", "Cw"}
    ELSE {}

_REQUERIDAS(familia) ==
    IF familia \in {"DOBLE_T", "CANAL"}
    THEN {"d", "bf", "tf", "tw", "hw", "Ag", "Ix", "Iy", "rx", "ry"}
    ELSE IF familia = "ANGULAR" THEN {"b", "t", "Ag", "Ix", "rx"}
    ELSE IF familia = "PERFIL_T"
    THEN {"d", "bf", "tf", "Ag", "Ix", "Iy", "rx", "ry"}
    ELSE IF familia \in {"TUBO_CIRC", "TUBO_CUAD"}
    THEN {"d", "t", "Ag", "Ix", "rx"}
    ELSE IF familia = "TUBO_RECT"
    THEN {"d", "bf", "t", "Ag", "Ix", "Iy", "rx", "ry"}
    ELSE {}

\* verificar_propiedades(props): the required names not in 'disponibles'.
verificar_propiedades(props) ==
    [completo  |-> _REQUERIDAS(props.familia) \subseteq Disponibles(props.familia),
     faltantes |-> _REQUERIDAS(props.familia) \ Disponibles(props.familia)]

\* The props of a row whose column n holds NaN: the value is read as 0.0;
\* ro, computed only `if Ag > 0`, is 0.0 without the area, and the ry of an
\* angle is its rx.
ExtraerSin(p, n) ==
    [p EXCEPT ![n] = a_flotante(None, 0),
              !.ro = IF n = "Ag" THEN 0 ELSE @,
              !.ry = IF n = "rx" /\ p.familia = "ANGULAR" THEN 0 ELSE @]

\* Unbraced lengths (mm) and effective-length factors (thousandths).
LongitudBase ==
    [Lx |-> 10000, Ly |-> 5000, Lz |-> 2500, Kx |-> 1000, Ky |-> 1000, Kz |-> 1000]

Longitudes ==
    {LongitudBase,
     [Lx |-> 5000, Ly |-> 5000, Lz |-> 2500, Kx |-> 2000, Ky |-> 1000, Kz |-> 1000],
     [Lx |-> 2500, Ly |-> 2500, Lz |-> None, Kx |-> 1000, Ky |-> 1000, Kz |-> 1000],
     [Lx |-> 10000, Ly |-> 2500, Lz |-> 2500, Kx |-> 1000, Ky |-> 1000, Kz |-> 1000],
     [Lx |-> 4000, Ly |-> 7500, Lz |-> None, Kx |-> 1000, Ky |-> 2000, Kz |-> 1000],
     [Lx |-> 2500, Ly |-> 3000, Lz |-> None, Kx |-> 1000, Ky |-> 1000, Kz |-> 2000],
     [Lx |-> 2500, Ly |-> 2500, Lz |-> 6000, Kx |-> 1000, Ky |-> 1000, Kz |-> 1000],
     [Lx |-> 5000, Ly |-> 5000, Lz |-> 5000, Kx |-> 1000, Ky |-> 1000, Kz |-> 1000]}

Fluencias == {250000, 345000}

Tolerancias == {TOL_Q_DEFECTO, 100}

Llamada(p, fy, l, m, t) ==
    [props |-> p, Fy |-> fy, Lx |-> l.Lx, Ly |-> l.Ly, Lz |-> l.Lz,
     Kx |-> l.Kx, Ky |-> l.Ky, Kz |-> l.Kz, max_iter_Q |-> m, tol_Q |-> t,
     ausentes |-> {}]

\* Calls with the default iteration settings: every section and length at
\* Fy = 250 MPa, every section at Fy = 345 MPa.
LlamadasPorDefecto ==
    {Llamada(p, 250000, l, MAX_ITER_Q_DEFECTO, TOL_Q_DEFECTO) :
        p \in PerfilesExtraidos, l \in Longitudes}
    \cup {Llamada(p, 345000, LongitudBase, MAX_ITER_Q_DEFECTO, TOL_Q_DEFECTO) :
        p \in PerfilesExtraidos}

\* Calls with every cap 0..MaxCap and tolerance, on the slender sections
\* (and one compact section).
LlamadasConAjustes ==
    {Llamada(p, 250000, LongitudBase, m, t) :
        p \in {q \in PerfilesExtraidos :
                  \/ q.tipo = "W" /\ q.bf_2tf \in {9 * U, 35 * U}
                  \/ q.tipo = "C" /\ q.bf_2tf = 35 * U /\ q.hw_tw = 170 * U
                                  /\ q.xo > 0
                  \/ q.tipo = "L" /\ q.b_t = 20 * U},
        m \in 0..MaxCap, t \in Tolerancias}

\* Calls on rows that lack a required property of their family: an angle
\* without area or without rx, an I-shape (compact or with a slender flange)
\* without area.
LlamadasIncompletas ==
    {[Llamada(ExtraerSin(p, n), 250000, l, MAX_ITER_Q_DEFECTO, TOL_Q_DEFECTO)
         EXCEPT !.ausentes = {n}] :
        p \in {q \in PerfilesExtraidos :
                  \/ q.tipo = "L" /\ q.b_t \in {8 * U, 20 * U}
                  \/ q.tipo = "W" /\ q.bf_2tf \in {9 * U, 35 * U}
                                  /\ q.hw_tw = 50 * U},
        n \in {"Ag", "rx"},
        l \in {LongitudBase}}

\* A call on a row whose type is in no family.
LlamadasTipoDesconocido ==
    {Llamada(Props("Z", <<20 * U, 50 * U, None, None, None, None>>, GeoDobleT),
             fy, LongitudBase, MAX_ITER_Q_DEFECTO, TOL_Q_DEFECTO) :
        fy \in Fluencias}

Llamadas ==
    LlamadasPorDefecto \cup LlamadasConAjustes \cup LlamadasIncompletas
        \cup LlamadasTipoDesconocido

\* Critical stresses (kPa) supplied from outside to a direct call of calcular_Q.
FcrExternos == {None, 50000, 150000, 250000}

SinSalida == [op |-> "nada"]

SinClasificar == [ok |-> FALSE, elementos |-> <<>>, clase_seccion |-> "",
                  es_esbelta |-> FALSE, advertencias |-> <<>>]

SinQ == [ok |-> FALSE, Q |-> 0, Qs |-> 0, Qa |-> 0, notas |-> <<>>]

SinResultados ==
    [Q |-> None, Qs |-> None, Qa |-> None, iter_Q |-> None, Lz |-> None,
     clase_seccion |-> "", advertencias |-> <<>>, modos_Fe |-> <<>>,
     Fe |-> None, modo_pandeo |-> "", esbeltez_max |-> None,
     Fcr |-> None, Pn |-> None, Pd |-> None]

-----------------------------------------------------------------------------
(* GestorBaseDatos: names are sequences of characters, a method returns     *)
(* its outcome together with the manager as the call leaves it.             *)

AISC == <<"A", "I", "S", "C">>

CIRSOC == <<"C", "I", "R", "S", "O", "C">>

\* str.upper() on one character of the names used here.
Mayuscula(c) ==
    CASE c = "a" -> "A" [] c = "c" -> "C" [] c = "i" -> "I" [] c = "o" -> "O"
      [] c = "r" -> "R" [] c = "s" -> "S" [] c = "t" -> "T" [] OTHER -> c

\* The name taken as it is written.
SinMayusculas(nombre) == nombre

\* nombre.upper()
Mayusculas(nombre) == [i \in DOMAIN nombre |-> Mayuscula(nombre[i])]

\* `tipo=None` of obtener_datos_perfil().
SinTipo == "None"

\* The tables loaded from the CSV files: one row per section, with the
\* cells Tipo and PERFIL and the properties of the row.
TablaCIRSOC ==
    <<[Tipo |-> "IPE", PERFIL |-> "200",
       props |-> Props("IPE", <<9 * U, 50 * U, None, None, None, None>>,
                       GeoDobleT)],
      [Tipo |-> "UPN", PERFIL |-> "200",
       props |-> Props("UPN", <<35 * U, 170 * U, None, None, None, None>>,
                       CHOOSE g \in GeosCanal : g.xo > 0)],
      [Tipo |-> "L", PERFIL |-> "L100",
       props |-> Props("L", <<None, None, 20 * U, None, None, None>>,
                       GeoAngular)]>>

TablaAISC ==
    <<[Tipo |-> "W", PERFIL |-> "W18X97",
       props |-> Props("W", <<35 * U, 170 * U, None, None, None, None>>,
                       GeoDobleT)],
      [Tipo |-> "C", PERFIL |-> "200",
       props |-> Props("C", <<20 * U, 50 * U, None, None, None, None>>,
                       CHOOSE g \in GeosCanal : g.xo = 0)]>>

\* __init__(): both tables loaded, CIRSOC active.
GestorInicial ==
    [db_activa |-> CIRSOC, db_aisc |-> TablaAISC, db_cirsoc |-> TablaCIRSOC]

\* cambiar_base(nombre): ValueError before the assignment for a name that
\* is neither base.
cambiar_base(g, nombre) ==
    IF Mayusculas(nombre) \notin {AISC, CIRSOC}
    THEN [gestor |-> g, error |-> "ValueError"]
    ELSE [gestor |-> [g EXCEPT !.db_activa = Mayusculas(nombre)],
          error |-> ""]

\* obtener_base_activa(): a copy of the active table.
obtener_base_activa(g) ==
    IF g.db_activa = AISC THEN g.db_aisc ELSE g.db_cirsoc

nombre_base_activa(g) == g.db_activa

\* db[(db['Tipo'] == tipo) & (db['PERFIL'] == nombre_perfil)], or
\* db[db['PERFIL'] == nombre_perfil] without tipo.
Coincidencias(db, nombre_perfil, tipo) ==
    LET Coincide(f) ==
            f.PERFIL = nombre_perfil /\ (tipo = SinTipo \/ f.Tipo = tipo)
    IN  SelectSeq(db, Coincide)

\* The warning printed only from three rows on.
AmbiguedadDesdeTres(matches) == Len(matches) > 2

\* if len(matches) > 1
HayAmbiguedad(matches) == Len(matches) > 1

SinFila == [Tipo |-> "", PERFIL |-> "", props |-> SinSalida]

\* A look-up on the table of the manager itself that takes the row out.
ObtenerYRetirarPerfil(g, nombre_perfil, tipo) ==
    LET db      == obtener_base_activa(g)
        matches == Coincidencias(db, nombre_perfil, tipo)
        Resto(f) == f # matches[1]
    IN  IF Len(matches) = 0
        THEN [gestor |-> g, error |-> "ValueError", fila |-> SinFila,
              advertencia |-> FALSE]
        ELSE [gestor |-> IF g.db_activa = AISC
                         THEN [g EXCEPT !.db_aisc = SelectSeq(db, Resto)]
                         ELSE [g EXCEPT !.db_cirsoc = SelectSeq(db, Resto)],
              error |-> "", fila |-> matches[1], advertencia |-> FALSE]

\* obtener_datos_perfil(nombre_perfil, tipo): ValueError without a match,
\* else the first match; the ambiguity warning is printed for several
\* matches of a search without tipo.
obtener_datos_perfil(g, nombre_perfil, tipo) ==
    LET db      == obtener_base_activa(g)
        matches == Coincidencias(db, nombre_perfil, tipo)
    IN  IF Len(matches) = 0
        THEN [gestor |-> g, error |-> "ValueError", fila |-> SinFila,
              advertencia |-> FALSE]
        ELSE [gestor |-> g, error |-> "", fila |-> matches[1],
              advertencia |-> tipo = SinTipo /\ HayAmbiguedad(matches)]

-----------------------------------------------------------------------------
(* compresion(): the call as a sequence of steps                           *)

Init ==
    /\ entrada = SinSalida
    /\ salida = SinSalida
    /\ pc = "inicio"
    /\ args \in Llamadas
    /\ clasificacion = SinClasificar
    /\ Fe_temp = None
    /\ Q_actual = None
    /\ Q_info = SinQ
    /\ iter_Q = None
    /\ error_relativo = None
    /\ gestor = GestorInicial
    /\ historial = SinSalida
    /\ resultados = SinResultados

\* PASOS 1-5: properties extracted (ValueError for a type of no family) and
\* verified, Lz adjusted, results initialised.
Paso1a5 ==
    /\ pc = "inicio"
    /\ IF \/ args.props.familia = "DESCONOCIDA"
          \/ ~verificar_propiedades(args.props).completo
       THEN /\ pc' = "error"
            /\ UNCHANGED resultados
       ELSE /\ pc' = "paso6"
            /\ resultados' = [resultados EXCEPT
                   !.Q = U, !.Qs = U, !.Qa = U, !.iter_Q = 0,
                   !.Lz = LzAjustado(args), !.advertencias = <<>>]
    /\ UNCHANGED <<gestor, historial, entrada, salida, args, clasificacion, Fe_temp, Q_actual,
                   Q_info, iter_Q, error_relativo>>

\* PASO 6: classification of the section.
Paso6 ==
    /\ pc = "paso6"
    /\ LET c == clasificar_seccion(args.props, args.Fy, E_ACERO)
       IN  /\ clasificacion' = c
           /\ resultados' = [resultados EXCEPT
                  !.clase_seccion = c.clase_seccion,
                  !.advertencias = @ \o c.advertencias]
    /\ pc' = "paso6.5"
    /\ UNCHANGED <<gestor, historial, entrada, salida, args, Fe_temp, Q_actual, Q_info, iter_Q,
                   error_relativo>>

\* PASO 6.5, section not slender: Q stays 1.0.
SinReduccion ==
    /\ pc = "paso6.5"
    /\ ~clasificacion.es_esbelta
    /\ resultados' = [resultados EXCEPT
           !.advertencias = Append(@, "Q_1.0_sin_reduccion")]
    /\ pc' = "paso7"
    /\ UNCHANGED <<gestor, historial, entrada, salida, args, clasificacion, Fe_temp, Q_actual,
                   Q_info, iter_Q, error_relativo>>

\* PASO 6.5, slender section: trial Fe and start of the iteration.
IniciarQ ==
    /\ pc = "paso6.5"
    /\ clasificacion.es_esbelta
    /\ IF DivisionPorCero(args)
       THEN /\ pc' = "error"
            /\ UNCHANGED <<Fe_temp, Q_actual, iter_Q>>
       ELSE /\ Fe_temp' = FeTemporal(args)
            /\ Q_actual' = U
            /\ iter_Q' = 0
            /\ pc' = "bucleQ"
    /\ UNCHANGED <<gestor, historial, entrada, salida, args, clasificacion, Q_info,
                   error_relativo, resultados>>

\* abs(Q_nuevo - Q_actual) / Q_actual if Q_actual > 0 else 1.0
ErrorRelativo(Q_nuevo, Q_ant) ==
    IF Q_ant > 0 THEN MulDiv(Abs(Q_nuevo - Q_ant), U, Q_ant) ELSE U

\* if error_relativo < tol_Q: break
Converge(err, tol) == err < tol

\* The body of the loop once calcular_Q returned info.
Iteracion(info) ==
    /\ iter_Q' = iter_Q + 1
    /\ Q_info' = info
    /\ error_relativo' = ErrorRelativo(info.Q, Q_actual)
    /\ IF Converge(ErrorRelativo(info.Q, Q_actual), args.tol_Q)
       THEN /\ pc' = "finBucle"
            /\ Q_actual' = Q_actual
       ELSE /\ pc' = "bucleQ"
            /\ Q_actual' = info.Q

\* One pass of `for iter_Q in range(1, max_iter_Q + 1)`.
IterarQ ==
    /\ pc = "bucleQ"
    /\ iter_Q < args.max_iter_Q
    /\ Iteracion(calcular_Q(args.props, args.Fy, E_ACERO,
                            _calcular_Fcr(Fe_temp, args.Fy, Q_actual)))
    /\ UNCHANGED <<gestor, historial, entrada, salida, args, clasificacion, Fe_temp, resultados>>

\* The range is exhausted: the loop ends without break.
AgotarBucle ==
    /\ pc = "bucleQ"
    /\ iter_Q >= args.max_iter_Q
    /\ pc' = "finBucle"
    /\ UNCHANGED <<gestor, historial, entrada, salida, args, clasificacion, Fe_temp, Q_actual,
                   Q_info, iter_Q, error_relativo, resultados>>

\* After the loop: convergence note and final Q.  Reading error_relativo
\* while it is unbound (the loop body never ran) raises UnboundLocalError.
CerrarQ ==
    /\ pc = "finBucle"
    /\ IF error_relativo = None
       THEN /\ pc' = "error"
            /\ UNCHANGED resultados
       ELSE /\ pc' = "paso7"
            /\ resultados' = [resultados EXCEPT
                   !.advertencias = Append(@,
                        IF Converge(error_relativo, args.tol_Q)
                        THEN "Factor_Q_convergio"
                        ELSE "ADVERTENCIA_Factor_Q_no_convergio"),
                   !.Q = Q_info.Q, !.Qs = Q_info.Qs, !.Qa = Q_info.Qa,
                   !.iter_Q = iter_Q]
    /\ UNCHANGED <<gestor, historial, entrada, salida, args, clasificacion, Fe_temp, Q_actual,
                   Q_info, iter_Q, error_relativo>>

\* The advisory limit reached already at KL/r = 200.
SuperaLimiteInclusivo(esbeltez) == esbeltez >= 200 * U

\* if esbeltez_max > 200
SuperaLimiteEsbeltez(esbeltez) == esbeltez > 200 * U

\* PASO 8 for the governing buckling g and the critical stress Fcr.
\* Pn, Pd in tenths of a N (Fcr [kPa] * Ag [cm2]); reported rounded to 0.01 kN.
Resistencia(g, Fcr) ==
    [resultados EXCEPT
        !.advertencias = @ \o g.advertencias
            \o (IF SuperaLimiteEsbeltez(g.esbeltez_max)
                THEN <<"esbeltez_supera_200">> ELSE <<>>),
        !.modos_Fe = [m \in DOMAIN g.modos_Fe |-> Round2(g.modos_Fe[m])],
        !.Fe = Round2(g.Fe),
        !.modo_pandeo = g.modo,
        !.esbeltez_max = Redondear(g.esbeltez_max, 10000),
        !.Fcr = Round2(Fcr),
        !.Pn = Redondear(Fcr * args.props.Ag, 100),
        !.Pd = Redondear(MulDiv(PHI_C, Fcr * args.props.Ag, U), 100)]

\* PASOS 7-8 with the critical stress of the unreduced section (Q = 1.0).
PandeoYResistenciaSinQ(g) ==
    IF ~g.ok
    THEN /\ pc' = "error"
         /\ UNCHANGED resultados
    ELSE /\ pc' = "fin"
         /\ resultados' = Resistencia(g, _calcular_Fcr(g.Fe, args.Fy, U))

\* PASOS 7-8 once the buckling modes g are computed.
PandeoYResistencia(g) ==
    IF ~g.ok
    THEN /\ pc' = "error"
         /\ UNCHANGED resultados
    ELSE /\ pc' = "fin"
         /\ resultados' = Resistencia(g, _calcular_Fcr(g.Fe, args.Fy, resultados.Q))

\* PASOS 7-8: global buckling, slenderness advisory, Fcr, Pn, Pd.
Paso7y8 ==
    /\ pc = "paso7"
    /\ PandeoYResistencia(PandeoGlobal(args))
    /\ UNCHANGED <<gestor, historial, entrada, salida, args, clasificacion, Fe_temp, Q_actual,
                   Q_info, iter_Q, error_relativo>>

\* Direct calls clasificar_seccion(props, Fy, E) and calcular_Q(props, Fy, E,
\* Fcr) on the same section, with a critical stress supplied from outside.
LlamarCalcularQ ==
    /\ pc \in {"fin", "error"}
    /\ salida = SinSalida
    /\ \E Fcr \in FcrExternos :
          salida' = [op |-> "calcular_Q", Fcr |-> Fcr,
                     c |-> clasificar_seccion(args.props, args.Fy, E_ACERO),
                     r |-> calcular_Q(args.props, args.Fy, E_ACERO, Fcr)]
    /\ UNCHANGED <<gestor, historial, entrada, pc, args, clasificacion, Fe_temp, Q_actual,
                   Q_info, iter_Q, error_relativo, resultados>>

Next ==
    \/ Paso1a5
    \/ Paso6
    \/ SinReduccion
    \/ IniciarQ
    \/ IterarQ
    \/ AgotarBucle
    \/ CerrarQ
    \/ Paso7y8
    \/ LlamarCalcularQ

Spec == Init /\ [][Next]_vars

-----------------------------------------------------------------------------
(* flexion.py: flexural resistance.  Moments in N.m, section moduli in cm3, *)
(* Iy and J in cm4, Cw in cm6, lengths Lb, Lp, Lr, rts in micrometres, d,   *)
(* tf, ho and ry in mm, Cb in millionths.                                   *)

PHI_B == 900000

\* Fy * Z (or Fy * S): kPa * cm3 = 10^-3 N.m.
Momento(Fy, Z) == MulDiv(Fy, Z, 1000)

\* rts = sqrt(sqrt(Iy * Cw) / Sx), in micrometres.
_rts(Iy, Cw, Sx) ==
    MulDiv(Raiz(MulDiv(Raiz(MulDiv(Iy * 100, Cw, U)), U, Sx * 1000)), 1, 10)

\* Lp = 1.76 * ry * sqrt(E / Fy), in micrometres.
_Lp(ry, E, Fy) == MulDiv(1760 * ry, RaizEFy(E, Fy), U)

\* 1000 * u, u = J / (Sx * ho), in millionths.
TorsionRelativa(J, Sx, ho) == MulDiv(J * 10000, U, Sx * ho)

\* Lr = 1.95 * rts * (E / (0.7 * Fy))
\*          * sqrt(u + sqrt(u**2 + 6.76 * (0.7 * Fy / E)**2)), in micrometres.
\* u and 0.7*Fy/E are carried multiplied by 1000 and the outer root divided
\* by sqrt(1000) = 31.622777.
_Lr(rts, E, Fy, J, Sx, ho) ==
    LET v  == TorsionRelativa(J, Sx, ho)
        c  == MulDiv(7 * Fy, U \div 10, E)
        X  == v + Raiz(MulDiv(v, v, U) + MulDiv(MulDiv(676, c, 100), c, U))
        t1 == MulDiv(MulDiv(rts, MulDiv(E * 1000, 10 * U, 7 * Fy), U), 195, 100)
    IN  MulDiv(MulDiv(t1, Raiz(X), U), U, 31622777)

\* Elastic LTB taken as growing in proportion to Lb / Lr.
MnLTBElasticoProporcional(Lb, Fy, Sx, Cb, E, rts, J, ho) ==
    MulDiv(Momento(MulDiv(7, Fy, 10), Sx), Lb,
           _Lr(rts, E, Fy, J, Sx, ho))

\* Fcr * Sx of elastic LTB (N.m): Fcr = Cb * pi^2 * E / slend^2
\*     * sqrt(1 + 0.078 * J / (Sx * ho) * slend^2), slend = Lb / rts.
MnLTBElastico(Lb, Fy, Sx, Cb, E, rts, J, ho) ==
    LET slend == MulDiv(Lb, U, rts)
        base  == MulDiv(MulDiv(MulDiv(Pi2, E * 1000, U), U, slend), U, slend)
        s2    == MulDiv(MulDiv(slend, 1, 1000), slend, U)
        w     == MulDiv(MulDiv(78, TorsionRelativa(J, Sx, ho), 1000), s2, U)
    IN  Momento(MulDiv(MulDiv(Cb, base, U), Raiz(U + w), U), Sx)

\* Cb * (Mp - (Mp - 0.7 * Fy * Sx) * (Lb - Lp) / (Lr - Lp))
MnLTBInelastico(Lb, Lp, Lr, Mp, Fy, Sx, Cb) ==
    MulDiv(Cb,
           Mp - MulDiv(Mp - Momento(MulDiv(7, Fy, 10), Sx), Lb - Lp, Lr - Lp),
           U)

\* (Mn, modo) for lateral-torsional buckling, F2-1 to F2-4.
_Mn_LTB(Lb, Lp, Lr, Mp, Fy, Sx, Cb, E, rts, J, ho) ==
    IF Lb <= Lp THEN <<Mp, "Fluencia">>
    ELSE IF Lb <= Lr
    THEN <<Min2(MnLTBInelastico(Lb, Lp, Lr, Mp, Fy, Sx, Cb), Mp),
           "LTB inelastico">>
    ELSE <<Min2(MnLTBElastico(Lb, Fy, Sx, Cb, E, rts, J, ho), Mp),
           "LTB elastico">>

\* Kc = min(max(4.0 / sqrt(lam_f), 0.35), 0.76), in millionths.
Kc(lam_f) == Min2(Max2(MulDiv(4 * U, U, Raiz(lam_f)), 350000), 760000)

\* (Mn, modo, lam_pf, lam_rf) for flange local buckling, F3.
_Mn_FLB(Mp, Fy, Sx, lam_f, E) ==
    LET lam_pf == MulDiv(38, RaizEFy(E, Fy), 100)
        lam_rf == RaizEFy(E, Fy)
    IN  IF lam_f <= lam_pf THEN <<Mp, "Ala compacta", lam_pf, lam_rf>>
        ELSE IF lam_f <= lam_rf
        THEN <<Mp - MulDiv(Mp - Momento(MulDiv(7, Fy, 10), Sx),
                           lam_f - lam_pf, lam_rf - lam_pf),
               "FLB inelastico", lam_pf, lam_rf>>
        ELSE <<Min2(Momento(MulDiv(MulDiv(MulDiv(900 * E, Kc(lam_f), U),
                                          U, lam_f), U, lam_f), Sx), Mp),
               "FLB elastico", lam_pf, lam_rf>>

\* Local buckling in three zones: Mp up to lam_p, the straight line from Mp
\* to My up to lam_r, then min(0.69 * E / lam**2 * S, Mp).  (Mn, zone)
PandeoLocalTresZonas(Mp, My, S, lam, lam_p, lam_r, E) ==
    IF lam <= lam_p THEN <<Mp, 1>>
    ELSE IF lam <= lam_r
    THEN <<Mp - MulDiv(Mp - My, lam - lam_p, lam_r - lam_p), 2>>
    ELSE <<Min2(Momento(MulDiv(MulDiv(690 * E, U, lam), U, lam), S), Mp), 3>>

\* Mp = Fy * Z if Z > 0 else factor * My  (factor in hundredths)
MpORespaldo(Fy, S, Z, factor) ==
    IF Z > 0 THEN Momento(Fy, Z) ELSE MulDiv(factor, Momento(Fy, S), 100)

\* Weak axis of I-shapes and channels, F6: (Mn, modo, lam_pf, lam_rf)
_Mn_eje_debil(Fy, Sy, Zy, bf_2tf, E) ==
    LET lam_pf == MulDiv(38, RaizEFy(E, Fy), 100)
        lam_rf == RaizEFy(E, Fy)
        r == PandeoLocalTresZonas(MpORespaldo(Fy, Sy, Zy, 112), Momento(Fy, Sy),
                                  Sy, bf_2tf, lam_pf, lam_rf, E)
    IN  <<r[1], <<"Compacta", "No compacta", "Esbelta">>[r[2]], lam_pf, lam_rf>>

\* Tees, F9 (stem in compression): (Mn, modo, lam_p, lam_r)
_Mn_perfil_T(Fy, Sx, Zx, d_tw, E) ==
    LET lam_p == MulDiv(84, RaizEFy(E, Fy), 100)
        lam_r == MulDiv(103, RaizEFy(E, Fy), 100)
        r == PandeoLocalTresZonas(MpORespaldo(Fy, Sx, Zx, 150), Momento(Fy, Sx),
                                  Sx, d_tw, lam_p, lam_r, E)
    IN  <<r[1], <<"Stem compacto", "Stem no compacto", "Stem esbelta">>[r[2]],
          lam_p, lam_r>>

\* Round tubes, F8: (Mn, modo, lam_p, lam_p)
_Mn_tubo_circular(Fy, Z, D_t, E) ==
    LET Mp    == Momento(Fy, Z)
        lam_p == MulDiv(70 * E, U, Fy)
    IN  IF D_t <= lam_p THEN <<Mp, "Compacto", lam_p, lam_p>>
        ELSE <<MulDiv(Min2(MulDiv(MulDiv(21 * E, U, Fy), U, D_t), U), Mp, U),
               "No compacto", lam_p, lam_p>>

\* Rectangular HSS, F7: the flange and the web are checked and the smaller
\* governs (the flange when equal).  (Mn, modo, lam_p, lam_r)
_Mn_HSS_rectangular(Fy, Sx, Zx, b_t, h_t, E, eje) ==
    LET My     == Momento(Fy, Sx)
        Mp     == MpORespaldo(Fy, Sx, Zx, 112)
        lam_pf == MulDiv(112, RaizEFy(E, Fy), 100)
        lam_rf == MulDiv(140, RaizEFy(E, Fy), 100)
        lam_pw == MulDiv(242, RaizEFy(E, Fy), 100)
        lam_rw == MulDiv(570, RaizEFy(E, Fy), 100)
        lam_flange == IF eje = "fuerte" THEN b_t ELSE h_t
        lam_web    == IF eje = "fuerte" THEN h_t ELSE b_t
        f == PandeoLocalTresZonas(Mp, My, Sx, lam_flange, lam_pf, lam_rf, E)
        w == PandeoLocalTresZonas(Mp, My, Sx, lam_web, lam_pw, lam_rw, E)
    IN  IF f[1] <= w[1]
        THEN <<f[1], <<"Flange compacto", "Flange no compacto",
                       "Flange esbelta">>[f[2]], lam_pf, lam_rf>>
        ELSE <<w[1], <<"Web compacto", "Web no compacto",
                       "Web esbelta">>[w[2]], lam_pw, lam_rw>>

-----------------------------------------------------------------------------
(* flexion(): the call.  `entrada` holds the arguments (tipo and fila, the  *)
(* row of the data base with None for an empty cell; Fy in kPa; Lb in mm;   *)
(* eje; Cb; calcular_ambos_ejes) and `resultados` the dict of the call,     *)
(* with None for NaN and for a key not yet written.  Reported moments are   *)
(* kept in N.m, rounded to 10 N.m (0.01 kN.m); Lp and Lr in micrometres,    *)
(* rounded to 1 mm.                                                         *)

\* extraer_propiedades(), the part read by flexion(): every cell through
\* a_flotante(., 0.0); angles and round/square tubes repeat the x values
\* for y; tubes get d_t = d / t and no key D_t, b_t or h_tw.
ExtraerFlexion(tipo, fila) ==
    LET familia == FAMILIAS(tipo)
        R(n)    == a_flotante(fila[n], 0)
    IN  [tipo |-> tipo, familia |-> familia,
         Sx |-> R("Sx"), Zx |-> R("Zx"),
         Sy |-> IF familia \in {"ANGULAR", "TUBO_CIRC", "TUBO_CUAD"}
                THEN R("Sx") ELSE R("Sy"),
         Zy |-> IF familia \in {"TUBO_CIRC", "TUBO_CUAD"}
                THEN R("Zx") ELSE R("Zy"),
         Iy |-> R("Iy"), ry |-> R("ry"), J |-> R("J"), Cw |-> R("Cw"),
         d |-> R("d"), tf |-> R("tf"),
         bf_2tf |-> R("bf_2tf"), d_tw |-> R("d_tw"),
         d_t |-> IF R("t") > 0 THEN MulDiv(R("d"), U, R("t")) ELSE 0]

SinResultadosFlexion ==
    [Mdx |-> None, Mdy |-> None, Mnx |-> None, Mny |-> None,
     Mpx |-> None, Mpy |-> None, modo_x |-> "", modo_y |-> "",
     Lp |-> None, Lr |-> None, Mn_ltb |-> None, Mn_flb |-> None,
     modo_ltb |-> "", modo_flb |-> "",
     Md |-> None, Mn |-> None, Mp |-> None, modo |-> "",
     advertencias |-> <<>>]

\* round(M / 1e6, 2)
Reportar(M) == Redondear(M, 10)

\* round(PHI_B * Mn / 1e6, 2)
Disenar(Mn) == Redondear(MulDiv(PHI_B, 100 * Mn, U), 1000) \div 100

\* Z read from the row, or factor * S (factor in hundredths) when it is 0.
ZORespaldo(Z, S, factor) == IF Z = 0 THEN MulDiv(factor, S, 100) ELSE Z

\* The strong-axis mode is that of LTB unless FLB gives strictly less.
GobiernaLTBEstricto(Mn_ltb, Mn_flb) == Mn_ltb < Mn_flb

GobiernaLTB(Mn_ltb, Mn_flb) == Mn_ltb <= Mn_flb

\* familia in ('DOBLE_T', 'CANAL')
FlexionDobleTCanal(e, p) ==
    LET Zx    == ZORespaldo(p.Zx, p.Sx, 112)
        Mp    == Momento(e.Fy, Zx)
        ho    == p.d - p.tf
        rts_v == _rts(p.Iy, p.Cw, p.Sx)
        Lp_v  == _Lp(p.ry, E_ACERO, e.Fy)
        Lr_v  == _Lr(rts_v, E_ACERO, e.Fy, p.J, p.Sx, ho)
        ltb   == _Mn_LTB(e.Lb * 1000, Lp_v, Lr_v, Mp, e.Fy, p.Sx, e.Cb,
                         E_ACERO, rts_v, p.J, ho)
        flb   == IF p.bf_2tf > 0
                 THEN _Mn_FLB(Mp, e.Fy, p.Sx, p.bf_2tf, E_ACERO)
                 ELSE <<Mp, "Ala compacta (bf/2tf=0)">>
        Mn_x  == Min2(ltb[1], flb[1])
        Zy    == ZORespaldo(p.Zy, p.Sy, 112)
        y     == _Mn_eje_debil(e.Fy, p.Sy, Zy, p.bf_2tf, E_ACERO)
        fuerte ==
            [SinResultadosFlexion EXCEPT
                !.Mnx = Reportar(Mn_x), !.Mdx = Disenar(Mn_x),
                !.Mpx = Reportar(Mp),
                !.Lp = Redondear(Lp_v, 1000), !.Lr = Redondear(Lr_v, 1000),
                !.Mn_ltb = Reportar(ltb[1]), !.Mn_flb = Reportar(flb[1]),
                !.modo_ltb = ltb[2], !.modo_flb = flb[2],
                !.modo_x = IF GobiernaLTB(ltb[1], flb[1]) THEN ltb[2]
                           ELSE flb[2],
                !.advertencias =
                    (IF p.Zx = 0 THEN <<"Zx no disponible">> ELSE <<>>)
                    \o (IF p.bf_2tf > 0 THEN <<>> ELSE <<"bf/2tf=0">>)
                    \o (IF p.familia = "CANAL" THEN <<"Canal: LTB con F2">>
                        ELSE <<>>)
                    \o (IF e.calcular_ambos_ejes /\ p.Zy = 0
                        THEN <<"Zy no disponible">> ELSE <<>>)]
    IN  IF e.calcular_ambos_ejes
        THEN [fuerte EXCEPT !.Mny = Reportar(y[1]), !.Mdy = Disenar(y[1]),
                            !.Mpy = Reportar(Momento(e.Fy, Zy)),
                            !.modo_y = y[2]]
        ELSE fuerte

\* familia == 'ANGULAR': Mn = 1.5 * My
FlexionAngular(e, p) ==
    LET Mn == MulDiv(150, Momento(e.Fy, p.Sx), 100)
    IN  [SinResultadosFlexion EXCEPT
            !.Mnx = Reportar(Mn), !.Mdx = Disenar(Mn), !.Mpx = Reportar(Mn),
            !.modo_x = "F10 simplificado (1.5 My)",
            !.advertencias = <<"Angular: F10 simplificado">>]

\* familia == 'PERFIL_T'
FlexionPerfilT(e, p) ==
    LET Zx == ZORespaldo(p.Zx, p.Sx, 150)
        t  == _Mn_perfil_T(e.Fy, p.Sx, Zx, p.d_tw, E_ACERO)
    IN  [SinResultadosFlexion EXCEPT
            !.Mnx = Reportar(t[1]), !.Mdx = Disenar(t[1]),
            !.Mpx = Reportar(Momento(e.Fy, Zx)), !.modo_x = t[2],
            !.advertencias =
                (IF p.Zx = 0 THEN <<"Zx no disponible">> ELSE <<>>)
                \o <<"Perfil T: solo eje fuerte">>]

\* familia == 'TUBO_CIRCULAR': Zx as read; D_t = props['seccion'].get('D_t', 0)
\* is 0 because the extractor writes the key d_t.
FlexionTuboCircular(e, p) ==
    LET t == _Mn_tubo_circular(e.Fy, p.Zx, 0, E_ACERO)
    IN  [SinResultadosFlexion EXCEPT
            !.Mnx = Reportar(t[1]), !.Mdx = Disenar(t[1]),
            !.Mpx = Reportar(Momento(e.Fy, p.Zx)), !.modo_x = t[2],
            !.Mny = Reportar(t[1]), !.Mdy = Disenar(t[1]),
            !.Mpy = Reportar(Momento(e.Fy, p.Zx)), !.modo_y = t[2],
            !.advertencias = <<"Tubo circular: simetrico">>]

\* familia in ('TUBO_RECTANGULAR', 'TUBO_CUADRADO'): b_t and h_t are read
\* with .get(., 0) from keys the extractor does not write for tubes.
FlexionTuboRectangular(e, p) ==
    LET Zx == ZORespaldo(p.Zx, p.Sx, 112)
        x  == _Mn_HSS_rectangular(e.Fy, p.Sx, Zx, 0, 0, E_ACERO, "fuerte")
        Zy == ZORespaldo(p.Zy, p.Sy, 112)
        y  == _Mn_HSS_rectangular(e.Fy, p.Sy, Zy, 0, 0, E_ACERO, "debil")
        fuerte ==
            [SinResultadosFlexion EXCEPT
                !.Mnx = Reportar(x[1]), !.Mdx = Disenar(x[1]),
                !.Mpx = Reportar(Momento(e.Fy, Zx)), !.modo_x = x[2],
                !.advertencias =
                    IF p.Zx = 0 THEN <<"Zx no disponible">> ELSE <<>>]
    IN  IF e.calcular_ambos_ejes /\ p.familia = "TUBO_RECTANGULAR"
        THEN [fuerte EXCEPT !.Mny = Reportar(y[1]), !.Mdy = Disenar(y[1]),
                            !.Mpy = Reportar(Momento(e.Fy, Zy)),
                            !.modo_y = y[2]]
        ELSE IF p.familia = "TUBO_CUADRADO"
        THEN [fuerte EXCEPT !.Mny = fuerte.Mnx, !.Mdy = fuerte.Mdx,
                            !.Mpy = fuerte.Mpx, !.modo_y = x[2]]
        ELSE fuerte

\* The family names the if/elif chain of flexion() tests.
FamiliasDeFlexion ==
    {"DOBLE_T", "CANAL", "ANGULAR", "PERFIL_T", "TUBO_CIRCULAR",
     "TUBO_RECTANGULAR", "TUBO_CUADRADO"}

\* The family names as the extractor spells them.
FamiliasDelExtractor ==
    {"DOBLE_T", "CANAL", "ANGULAR", "PERFIL_T", "TUBO_CIRC", "TUBO_RECT",
     "TUBO_CUAD"}

\* Step 2 of flexion(): the results of the branch taken for props.familia.
FlexionPorFamilia(e, p) ==
    IF p.familia \in {"DOBLE_T", "CANAL"} THEN FlexionDobleTCanal(e, p)
    ELSE IF p.familia = "ANGULAR" THEN FlexionAngular(e, p)
    ELSE IF p.familia = "PERFIL_T" THEN FlexionPerfilT(e, p)
    ELSE IF p.familia = "TUBO_CIRCULAR" THEN FlexionTuboCircular(e, p)
    ELSE FlexionTuboRectangular(e, p)

\* Step 3 of flexion(): Md, Mn, Mp, modo of the axis asked for.
CompatibilidadEje(e, r) ==
    IF e.eje = "fuerte"
    THEN [r EXCEPT !.Md = r.Mdx, !.Mn = r.Mnx, !.Mp = r.Mpx,
                   !.modo = r.modo_x]
    ELSE [r EXCEPT !.Md = IF r.Mdy # None THEN r.Mdy ELSE r.Mdx,
                   !.Mn = IF r.Mny # None THEN r.Mny ELSE r.Mnx,
                   !.Mp = IF r.Mpy # None THEN r.Mpy ELSE r.Mpx,
                   !.modo = IF r.modo_y # "" THEN r.modo_y ELSE r.modo_x]

\* Rows of the data base (section moduli in cm3, None for an empty cell).
FilaDobleT(bf_2tf, Zx, Zy) ==
    [Sx |-> 3000, Zx |-> Zx, Sy |-> 400, Zy |-> Zy, Iy |-> 2000, ry |-> 70,
     J |-> 240, Cw |-> 1000000, d |-> 500, tf |-> 20, t |-> None,
     bf_2tf |-> bf_2tf, d_tw |-> None]

FilaCanal(Zx, Zy) ==
    [Sx |-> 700, Zx |-> Zx, Sy |-> 100, Zy |-> Zy, Iy |-> 450, ry |-> 40,
     J |-> 110, Cw |-> 130000, d |-> 380, tf |-> 16, t |-> None,
     bf_2tf |-> 6 * U, d_tw |-> None]

FilaAngular ==
    [Sx |-> 30, Zx |-> None, Sy |-> None, Zy |-> None, Iy |-> None,
     ry |-> None, J |-> 13, Cw |-> 0, d |-> None, tf |-> None, t |-> 10,
     bf_2tf |-> None, d_tw |-> None]

FilaPerfilT(Zx, d_tw) ==
    [Sx |-> 150, Zx |-> Zx, Sy |-> 200, Zy |-> 310, Iy |-> 1000, ry |-> 70,
     J |-> 120, Cw |-> 5000, d |-> 250, tf |-> 20, t |-> None,
     bf_2tf |-> 9 * U, d_tw |-> d_tw]

FilaTubo(Zx, t) ==
    [Sx |-> 200, Zx |-> Zx, Sy |-> None, Zy |-> None, Iy |-> None,
     ry |-> None, J |-> 5600, Cw |-> 0, d |-> 200, tf |-> None, t |-> t,
     bf_2tf |-> None, d_tw |-> None]

\* Unbraced lengths Lb (mm) of the calls.
LongitudesLb == {2000, 3000, 4500, 6000, 8000, 12000}

LlamadaFlexion(tipo, fila, Fy, Lb, eje, Cb, ambos) ==
    [op |-> "flexion", tipo |-> tipo, fila |-> fila, Fy |-> Fy, Lb |-> Lb,
     eje |-> eje, Cb |-> Cb, calcular_ambos_ejes |-> ambos]

\* I-shapes with every cell filled: the three LTB zones against the three
\* flange zones.
LlamadasLTB ==
    {LlamadaFlexion("W", FilaDobleT(bf, 3400, 620), fy, lb, "fuerte", cb,
                    FALSE) :
        bf \in {9 * U, 12500000, 35 * U}, fy \in Fluencias,
        lb \in LongitudesLb, cb \in {U, 1300000}}

\* I-shapes and channels with Zx, Zy or bf/2tf empty or present.
LlamadasDobleTCanal ==
    {LlamadaFlexion("IPE", FilaDobleT(bf, z[1], z[2]), 250000, lb, eje, U,
                    ambos) :
        bf \in {9 * U, None},
        z \in {<<None, 620>>, <<3400, None>>, <<None, None>>},
        lb \in {3000, 8000}, eje \in {"fuerte", "debil"}, ambos \in BOOLEAN}
    \cup
    {LlamadaFlexion("UPN", FilaCanal(z[1], z[2]), 250000, lb, eje, U, ambos) :
        z \in {<<850, 170>>, <<None, 170>>, <<850, None>>},
        lb \in {1500, 4500}, eje \in {"fuerte", "debil"}, ambos \in BOOLEAN}

\* Angles, tees, tubes and a type of no family.
LlamadasOtrasFamilias ==
    {LlamadaFlexion("L", FilaAngular, fy, 3000, eje, U, FALSE) :
        fy \in Fluencias, eje \in {"fuerte", "debil"}}
    \cup
    {LlamadaFlexion("WT", FilaPerfilT(zx, d_tw), 250000, 3000, eje, U, FALSE) :
        zx \in {270, None}, d_tw \in {15 * U, 27 * U, 35 * U},
        eje \in {"fuerte", "debil"}}
    \cup
    {LlamadaFlexion(tipo, FilaTubo(zx, t), 250000, 3000, "fuerte", U, ambos) :
        tipo \in {"PIPE", "TUBO CUAD.", "TUBO RECT."}, zx \in {270, None},
        t \in {8, 2}, ambos \in BOOLEAN}
    \cup
    {LlamadaFlexion("Z", FilaDobleT(9 * U, 3400, 620), 250000, 3000,
                    "fuerte", U, FALSE)}

LlamadasFlexion ==
    LlamadasLTB \cup LlamadasDobleTCanal \cup LlamadasOtrasFamilias

InitFlexion ==
    /\ entrada \in LlamadasFlexion
    /\ salida = SinSalida
    /\ pc = "inicio"
    /\ args = SinSalida
    /\ clasificacion = SinClasificar
    /\ Fe_temp = None
    /\ Q_actual = None
    /\ Q_info = SinQ
    /\ iter_Q = None
    /\ error_relativo = None
    /\ gestor = GestorInicial
    /\ historial = SinSalida
    /\ resultados = SinResultadosFlexion

\* Step 1: the row is read and its properties extracted, ValueError for a
\* type of no family; the dict is created with NaN moments and empty modes.
IniciarFlexion ==
    /\ pc = "inicio"
    /\ entrada.op = "flexion"
    /\ IF FAMILIAS(entrada.tipo) = "DESCONOCIDA"
       THEN pc' = "error"
       ELSE pc' = "familia"
    /\ resultados' = SinResultadosFlexion
    /\ UNCHANGED <<gestor, historial, entrada, salida, args, clasificacion, Fe_temp, Q_actual,
                   Q_info, iter_Q, error_relativo>>

\* Step 2: the branch of the family, or ValueError("Familia ... no
\* implementada") when no branch names it.
ResistirFlexion ==
    /\ pc = "familia"
    /\ LET p == ExtraerFlexion(entrada.tipo, entrada.fila)
       IN  IF p.familia \in FamiliasDeFlexion
           THEN /\ resultados' = FlexionPorFamilia(entrada, p)
                /\ pc' = "compat"
           ELSE /\ pc' = "error"
                /\ UNCHANGED resultados
    /\ UNCHANGED <<gestor, historial, entrada, salida, args, clasificacion, Fe_temp, Q_actual,
                   Q_info, iter_Q, error_relativo>>

\* Step 3: the keys of the axis asked for, and the dict is returned.
DevolverFlexion ==
    /\ pc = "compat"
    /\ resultados' = CompatibilidadEje(entrada, resultados)
    /\ pc' = "fin"
    /\ UNCHANGED <<gestor, historial, entrada, salida, args, clasificacion, Fe_temp, Q_actual,
                   Q_info, iter_Q, error_relativo>>

\* The caller keeps the dict returned and calls again for the same member
\* with a longer or equal Lb.
RepetirFlexion ==
    /\ pc = "fin"
    /\ entrada.op = "flexion"
    /\ salida = SinSalida
    /\ \E lb \in LongitudesLb :
          /\ lb >= entrada.Lb
          /\ entrada' = [entrada EXCEPT !.Lb = lb]
    /\ salida' = [op |-> "flexion", Lb |-> entrada.Lb, r |-> resultados]
    /\ pc' = "inicio"
    /\ resultados' = SinResultadosFlexion
    /\ UNCHANGED <<gestor, historial, args, clasificacion, Fe_temp, Q_actual,
                   Q_info, iter_Q,
                   error_relativo>>

NextFlexion ==
    \/ IniciarFlexion
    \/ ResistirFlexion
    \/ DevolverFlexion
    \/ RepetirFlexion

SpecFlexion == InitFlexion /\ [][NextFlexion]_vars

-----------------------------------------------------------------------------
(* interaccion(): compresion(), flexion() on both axes, equation H1-1.      *)
(* Forces in N, moments in N.m, quotients in millionths.                    *)

\* The axial term reaching the boundary only above it.
AxialAltoEstricto(Nu, Pd) == 5 * Nu > Pd

\* if Nu_Pd >= 0.2
AxialAlto(Nu, Pd) == 5 * Nu >= Pd

\* Mu / Md if Md > 0 and not np.isnan(Md) else 0.0
TerminoDeFlexion(Mu, Md) ==
    IF Md > 0 /\ Md # None THEN MulDiv(Mu, U, Md) ELSE 0

\* The ratio of H1-1a with the factor 8/9 left out.
RatioH1SinFactor(Nu, Pd, Mux_Mdx, Muy_Mdy) ==
    IF AxialAlto(Nu, Pd)
    THEN MulDiv(Nu, U, Pd) + (Mux_Mdx + Muy_Mdy)
    ELSE MulDiv(MulDiv(Nu, U, Pd), 1, 2) + (Mux_Mdx + Muy_Mdy)

\* ratio = Nu_Pd + 8/9 * M_ratio_sum, or Nu_Pd / 2 + M_ratio_sum
RatioH1(Nu, Pd, Mux_Mdx, Muy_Mdy) ==
    IF AxialAlto(Nu, Pd)
    THEN MulDiv(Nu, U, Pd) + MulDiv(8, Mux_Mdx + Muy_Mdy, 9)
    ELSE MulDiv(MulDiv(Nu, U, Pd), 1, 2) + (Mux_Mdx + Muy_Mdy)

\* The pass flag taken from the ratio as the record reports it.
CumpleRedondeado(ratio) == Redondear(ratio, 100) <= U

\* bool(ratio <= 1.0), on the ratio before rounding
Cumple(ratio) == ratio <= U

\* round(x, 4)
Round4(x) == Redondear(x, 100)

\* The dict returned when Pd <= 0.
ResultadoSinCapacidad(Pd, Mdx, Mdy, advertencias) ==
    [ratio |-> None, cumple |-> FALSE, ecuacion |-> "-",
     Pd |-> Pd, Mdx |-> Mdx, Mdy |-> Mdy,
     Nu_Pd |-> None, Mux_Mdx |-> None, Muy_Mdy |-> None,
     advertencias |-> Append(advertencias, "Pd_no_positivo_interaccion_no_calculada")]

\* The dict returned by interaccion() for Pd > 0.
ResultadoH1(Nu, Mux, Muy, Pd, Mdx, Mdy, advertencias) ==
    LET Mux_Mdx == TerminoDeFlexion(Mux, Mdx)
        Muy_Mdy == TerminoDeFlexion(Muy, Mdy)
        ratio   == RatioH1(Nu, Pd, Mux_Mdx, Muy_Mdy)
    IN  [ratio |-> Round4(ratio), cumple |-> Cumple(ratio),
         ecuacion |-> IF AxialAlto(Nu, Pd) THEN "H1-1a" ELSE "H1-1b",
         Pd |-> Redondear(Pd, 100),
         Mdx |-> IF Mdx # None THEN Redondear(Mdx, 100) ELSE None,
         Mdy |-> IF Mdy # None THEN Redondear(Mdy, 100) ELSE None,
         Nu_Pd |-> Round4(MulDiv(Nu, U, Pd)),
         Mux_Mdx |-> Round4(Mux_Mdx), Muy_Mdy |-> Round4(Muy_Mdy),
         advertencias |-> advertencias]

\* Lines 76-141 of interaccion(): Pd of res_comp (N), Mdx and Mdy of res_flex.
Combinar(Nu, Mux, Muy, res_comp, res_flex) ==
    LET Pd  == res_comp.Pd \div 10
        adv == res_comp.advertencias \o res_flex.advertencias
    IN  IF Pd <= 0
        THEN ResultadoSinCapacidad(Pd, res_flex.Mdx, res_flex.Mdy, adv)
        ELSE ResultadoH1(Nu, Mux, Muy, Pd, res_flex.Mdx, res_flex.Mdy, adv)

\* The row of the data base behind the props of a compresion() call.
FilaDe(props) ==
    IF props.familia = "DOBLE_T" THEN FilaDobleT(props.bf_2tf, 3400, 620)
    ELSE IF props.familia = "CANAL"
         THEN [FilaCanal(850, 170) EXCEPT !.bf_2tf = props.bf_2tf]
    ELSE IF props.familia = "ANGULAR" THEN FilaAngular
    ELSE IF props.familia = "PERFIL_T" THEN FilaPerfilT(270, props.d_tw)
    ELSE FilaTubo(270, 8)

\* if Lz is None: Lz = max(Lx, Ly); max_iter_Q and tol_Q are not passed on.
ArgumentosDeCompresion(a) ==
    [a EXCEPT !.Lz = IF a.Lz = None THEN Max2(a.Lx, a.Ly) ELSE a.Lz]

LlamadasInteraccion ==
    {[op |-> "interaccion", compresion |-> a, Lb |-> lb, Cb |-> U] :
        a \in LlamadasPorDefecto \cup LlamadasIncompletas
                  \cup LlamadasTipoDesconocido,
        lb \in {3000, 8000}}

\* Axial demands as fractions of Pd (millionths) and bending demands (N.m).
FraccionesNu == {0, 150000, 200000, 600000, 1000000, 1000030, 1200000}

DemandasNu(Pd) ==
    {100000} \cup {MulDiv(Max2(Pd, 0), f, U) : f \in FraccionesNu}

DemandasMux == {0, 20000, 300000}

DemandasMuy == {0, 5000}

InitInteraccion ==
    /\ entrada \in LlamadasInteraccion
    /\ salida = SinSalida
    /\ pc = "inicio"
    /\ args = ArgumentosDeCompresion(entrada.compresion)
    /\ clasificacion = SinClasificar
    /\ Fe_temp = None
    /\ Q_actual = None
    /\ Q_info = SinQ
    /\ iter_Q = None
    /\ error_relativo = None
    /\ gestor = GestorInicial
    /\ historial = SinSalida
    /\ resultados = SinResultados

\* flexion(..., calcular_ambos_ejes=True) once compresion() returned; an
\* exception of flexion() leaves interaccion().
LlamarFlexion ==
    /\ pc = "fin"
    /\ entrada.op = "interaccion"
    /\ salida = SinSalida
    /\ LET e == LlamadaFlexion(args.props.tipo, FilaDe(args.props), args.Fy,
                               entrada.Lb, "fuerte", entrada.Cb, TRUE)
           p == ExtraerFlexion(e.tipo, e.fila)
       IN  IF p.familia \in FamiliasDeFlexion
           THEN /\ salida' = [op |-> "flexion", Lb |-> e.Lb,
                              r |-> CompatibilidadEje(e, FlexionPorFamilia(e, p))]
                /\ pc' = "combinar"
           ELSE /\ pc' = "error"
                /\ UNCHANGED salida
    /\ UNCHANGED <<gestor, historial, entrada, args, clasificacion, Fe_temp, Q_actual, Q_info,
                   iter_Q, error_relativo, resultados>>

\* The rest of interaccion() for the demands Nu, Mux, Muy of the call.
DevolverInteraccion ==
    /\ pc = "combinar"
    /\ \E Nu \in DemandasNu(resultados.Pd \div 10),
          Mux \in DemandasMux, Muy \in DemandasMuy :
          salida' = [op |-> "interaccion", Nu |-> Nu, Mux |-> Mux,
                     Muy |-> Muy, res_flex |-> salida.r,
                     r |-> Combinar(Nu, Mux, Muy, resultados, salida.r)]
    /\ pc' = "devuelto"
    /\ UNCHANGED <<gestor, historial, entrada, args, clasificacion, Fe_temp, Q_actual, Q_info,
                   iter_Q, error_relativo, resultados>>

NextInteraccion ==
    \/ Paso1a5
    \/ Paso6
    \/ SinReduccion
    \/ IniciarQ
    \/ IterarQ
    \/ AgotarBucle
    \/ CerrarQ
    \/ Paso7y8
    \/ LlamarFlexion
    \/ DevolverInteraccion

SpecInteraccion == InitInteraccion /\ [][NextInteraccion]_vars

-----------------------------------------------------------------------------
(* One GestorBaseDatos used by a caller for a sequence of calls:            *)
(* cambiar_base(), obtener_datos_perfil(), compresion() and flexion().      *)

NombresDeBase ==
    {AISC, CIRSOC, <<"a", "i", "s", "c">>, <<"C", "i", "r", "s", "o", "c">>,
     <<"O", "T", "R", "A">>, <<>>}

Designaciones == {"200", "L100", "PERFIL_INVENTADO_XYZ"}

TiposPedidos == {SinTipo, "UPN"}

\* The caller's note of the first calculation call, and whether a different
\* call followed it.
Anotar(h, llamada) ==
    IF h # SinSalida /\ h.llamada # llamada
    THEN [h EXCEPT !.otras = TRUE] ELSE h

Guardar(h, llamada, error, r) ==
    IF h = SinSalida
    THEN [op |-> "primera", llamada |-> llamada, error |-> error, r |-> r,
          otras |-> FALSE]
    ELSE h

InitGestor ==
    /\ entrada = SinSalida
    /\ salida = SinSalida
    /\ pc = "reposo"
    /\ args = SinSalida
    /\ clasificacion = SinClasificar
    /\ Fe_temp = None
    /\ Q_actual = None
    /\ Q_info = SinQ
    /\ iter_Q = None
    /\ error_relativo = None
    /\ resultados = SinResultados
    /\ gestor = GestorInicial
    /\ historial = SinSalida

CambiarBase ==
    /\ pc = "reposo"
    /\ \E nombre \in NombresDeBase :
          LET r == cambiar_base(gestor, nombre)
              llamada == [op |-> "cambiar_base", nombre |-> nombre,
                          base |-> nombre_base_activa(gestor)]
          IN  /\ gestor' = r.gestor
              /\ entrada' = llamada
              /\ salida' = [op |-> "cambiar_base", error |-> r.error]
              /\ historial' = Anotar(historial, llamada)
    /\ UNCHANGED <<pc, args, clasificacion, Fe_temp, Q_actual, Q_info, iter_Q,
                   error_relativo, resultados>>

ObtenerDatosPerfil ==
    /\ pc = "reposo"
    /\ \E nombre \in Designaciones, tipo \in TiposPedidos :
          LET r == obtener_datos_perfil(gestor, nombre, tipo)
              llamada == [op |-> "obtener_datos_perfil", nombre |-> nombre,
                          tipo |-> tipo, base |-> nombre_base_activa(gestor)]
          IN  /\ gestor' = r.gestor
              /\ entrada' = llamada
              /\ salida' = [op |-> "obtener_datos_perfil", error |-> r.error,
                            fila |-> r.fila, advertencia |-> r.advertencia]
              /\ historial' = Anotar(historial, llamada)
    /\ UNCHANGED <<pc, args, clasificacion, Fe_temp, Q_actual, Q_info, iter_Q,
                   error_relativo, resultados>>

\* compresion(perfil_nombre, tipo_perfil, ..., db_manager) up to the row
\* being read: every local of the call is new.
LlamarCompresion ==
    /\ pc = "reposo"
    /\ \E nombre \in Designaciones, tipo \in TiposPedidos,
          m \in {MAX_ITER_Q_DEFECTO, 1} :
          LET r == obtener_datos_perfil(gestor, nombre, tipo)
              llamada == [op |-> "compresion", nombre |-> nombre,
                          tipo |-> tipo, max_iter_Q |-> m,
                          base |-> nombre_base_activa(gestor)]
          IN  /\ gestor' = r.gestor
              /\ entrada' = llamada
              /\ historial' = Anotar(historial, llamada)
              /\ IF r.error # ""
                 THEN /\ pc' = "error"
                      /\ args' = SinSalida
                 ELSE /\ pc' = "inicio"
                      /\ args' = Llamada(r.fila.props, 250000, LongitudBase,
                                         m, TOL_Q_DEFECTO)
    /\ clasificacion' = SinClasificar
    /\ Fe_temp' = None
    /\ Q_actual' = None
    /\ Q_info' = SinQ
    /\ iter_Q' = None
    /\ error_relativo' = None
    /\ resultados' = SinResultados
    /\ salida' = SinSalida

\* compresion() returns its dict or raises, and its locals are gone; the
\* caller notes the outcome of the first call.
DevolverCompresion ==
    /\ pc \in {"fin", "error"}
    /\ entrada.op = "compresion"
    /\ LET r == IF pc = "fin" THEN resultados ELSE SinResultados
       IN  /\ salida' = [op |-> "compresion", llamada |-> entrada,
                         error |-> pc = "error", r |-> r]
           /\ historial' = Guardar(historial, entrada, pc = "error", r)
    /\ pc' = "reposo"
    /\ args' = SinSalida
    /\ clasificacion' = SinClasificar
    /\ Fe_temp' = None
    /\ Q_actual' = None
    /\ Q_info' = SinQ
    /\ iter_Q' = None
    /\ error_relativo' = None
    /\ resultados' = SinResultados
    /\ UNCHANGED <<gestor, entrada>>

\* flexion(perfil_nombre, ..., db_manager, tipo_perfil) as one step.
FlexionPorGestor ==
    /\ pc = "reposo"
    /\ \E nombre \in Designaciones, tipo \in TiposPedidos,
          eje \in {"fuerte"} :
          LET r == obtener_datos_perfil(gestor, nombre, tipo)
              llamada == [op |-> "flexion", nombre |-> nombre, tipo |-> tipo,
                          eje |-> eje, base |-> nombre_base_activa(gestor)]
              e == LlamadaFlexion(r.fila.Tipo, FilaDe(r.fila.props), 250000,
                                  3000, eje, U, TRUE)
              p == ExtraerFlexion(e.tipo, e.fila)
              falla == r.error # "" \/ p.familia \notin FamiliasDeFlexion
              res == IF falla THEN SinResultadosFlexion
                     ELSE CompatibilidadEje(e, FlexionPorFamilia(e, p))
          IN  /\ gestor' = r.gestor
              /\ entrada' = llamada
              /\ salida' = [op |-> "flexion", llamada |-> llamada,
                            error |-> falla, r |-> res]
              /\ historial' = Guardar(Anotar(historial, llamada), llamada,
                                      falla, res)
    /\ UNCHANGED <<pc, args, clasificacion, Fe_temp, Q_actual, Q_info, iter_Q,
                   error_relativo, resultados>>

NextGestor ==
    \/ CambiarBase
    \/ ObtenerDatosPerfil
    \/ LlamarCompresion
    \/ Paso1a5
    \/ Paso6
    \/ SinReduccion
    \/ IniciarQ
    \/ IterarQ
    \/ AgotarBucle
    \/ CerrarQ
    \/ Paso7y8
    \/ DevolverCompresion
    \/ FlexionPorGestor

SpecGestor == InitGestor /\ [][NextGestor]_vars

-----------------------------------------------------------------------------
(* Direct calls of the functions of clasificacion_seccion.py and of         *)
(* _calcular_Fcr, on arguments built by the caller                          *)

\* Number of steps of 0.0004 above 10.0 tried as a plate ratio.
MaxPasos == 8

\* Largest distance (millionths) from a threshold at which Qs is evaluated.
MaxDelta == 3

\* Number of steps of 25 MPa above 50 MPa tried as Fe.
MaxFeK == 6

EntradasElemento ==
    {[op |-> "_clasificar_elemento", lambda |-> 10 * U + 400 * k,
      lambda_p |-> lp, lambda_r |-> lr] :
        k \in 0..MaxPasos,
        lp \in {None, 10 * U + 400, 10 * U + 1200},
        lr \in {10 * U + 1600, 10 * U + 2400}}

\* The unstiffened-element functions and the factors of sqrt(E/Fy) (in
\* hundredths) at which each changes formula.
UmbralesQs ==
    [ala  |-> <<56, 103>>, pata |-> <<45, 91>>, stem |-> <<75, 103>>]

EntradasQs ==
    {[op |-> "Qs", elemento |-> el, umbral |-> i, delta |-> d,
      E |-> E_ACERO, Fy |-> fy] :
        el \in DOMAIN UmbralesQs, i \in {1, 2}, d \in 1..MaxDelta,
        fy \in Fluencias}

EntradasFcr ==
    {[op |-> "_calcular_Fcr", Fe |-> 50000 + 25000 * k, Fy |-> fy, Q |-> q] :
        k \in 0..MaxFeK,
        fy \in {225000, 250000, 300000, 345000, 450000},
        q \in {U, 750000, 500000}}

\* Sections a caller may describe by hand: also tubes with their wall ratios.
PerfilesDirectos ==
    PerfilesExtraidos
    \cup {Props("PIPE", <<None, None, None, None, dt, None>>, GeoTubo) :
        dt \in {50 * U, 120 * U}}
    \cup {Props(t, <<None, None, bt, None, None, ht>>, GeoTubo) :
        t \in {"HSS", "TUBO CUAD."}, bt \in {30 * U, 45 * U},
        ht \in {None, 60 * U}}

EntradasQ ==
    {[op |-> "calcular_Q", props |-> p, Fy |-> fy, E |-> E_ACERO, Fcr |-> f] :
        p \in PerfilesDirectos, fy \in Fluencias, f \in FcrExternos}

InitFunciones ==
    /\ entrada \in EntradasElemento \cup EntradasQs \cup EntradasFcr
                       \cup EntradasQ
    /\ salida = SinSalida
    /\ pc = "llamada"
    /\ args = SinSalida
    /\ clasificacion = SinClasificar
    /\ Fe_temp = None
    /\ Q_actual = None
    /\ Q_info = SinQ
    /\ iter_Q = None
    /\ error_relativo = None
    /\ gestor = GestorInicial
    /\ historial = SinSalida
    /\ resultados = SinResultados

LlamarClasificarElemento ==
    /\ pc = "llamada"
    /\ salida = SinSalida
    /\ entrada.op = "_clasificar_elemento"
    /\ salida' = [op |-> entrada.op,
                  r  |-> _clasificar_elemento("elemento", entrada.lambda,
                                              entrada.lambda_p, entrada.lambda_r)]
    /\ UNCHANGED <<gestor, historial, entrada, varsCompresion>>

\* The unstiffened-element function of an element.
QsDe(elemento, bt_ratio, E, Fy) ==
    IF elemento = "ala" THEN _calcular_qs_ala_laminada(bt_ratio, E, Fy)
    ELSE IF elemento = "pata" THEN _calcular_qs_angular(bt_ratio, E, Fy)
    ELSE _calcular_qs_stem_perfil_t(bt_ratio, E, Fy)

\* b/t at a threshold of an element: factor * sqrt(E/Fy).
UmbralDe(elemento, i, E, Fy) ==
    MulDiv(UmbralesQs[elemento][i], RaizEFy(E, Fy), 100)

\* Qs just below and just above a threshold.
LlamarQs ==
    /\ pc = "llamada"
    /\ salida = SinSalida
    /\ entrada.op = "Qs"
    /\ salida' =
          [op      |-> entrada.op,
           antes   |-> QsDe(entrada.elemento,
                            UmbralDe(entrada.elemento, entrada.umbral,
                                     entrada.E, entrada.Fy) - entrada.delta,
                            entrada.E, entrada.Fy),
           despues |-> QsDe(entrada.elemento,
                            UmbralDe(entrada.elemento, entrada.umbral,
                                     entrada.E, entrada.Fy) + entrada.delta,
                            entrada.E, entrada.Fy)]
    /\ UNCHANGED <<gestor, historial, entrada, varsCompresion>>

LlamarCalcularFcr ==
    /\ pc = "llamada"
    /\ salida = SinSalida
    /\ entrada.op = "_calcular_Fcr"
    /\ salida' = [op |-> entrada.op,
                  r  |-> _calcular_Fcr(entrada.Fe, entrada.Fy, entrada.Q)]
    /\ UNCHANGED <<gestor, historial, entrada, varsCompresion>>

LlamarCalcularQDirecto ==
    /\ pc = "llamada"
    /\ salida = SinSalida
    /\ entrada.op = "calcular_Q"
    /\ salida' = [op |-> entrada.op,
                  c  |-> clasificar_seccion(entrada.props, entrada.Fy, entrada.E),
                  r  |-> calcular_Q(entrada.props, entrada.Fy, entrada.E,
                                    entrada.Fcr)]
    /\ UNCHANGED <<gestor, historial, entrada, varsCompresion>>

NextFunciones ==
    \/ LlamarClasificarElemento
    \/ LlamarQs
    \/ LlamarCalcularFcr
    \/ LlamarCalcularQDirecto

SpecFunciones == InitFunciones /\ [][NextFunciones]_vars

-----------------------------------------------------------------------------
(* Properties                                                              *)

\* C1: _clasificar_elemento returns COMPACTA iff lambda_p is defined and
\* lambda <= lambda_p, otherwise NO_COMPACTA iff lambda <= lambda_r, otherwise
\* ESBELTA; lambda = lambda_p gives COMPACTA, lambda_p < lambda never gives
\* COMPACTA, lambda = lambda_r gives NO_COMPACTA, lambda > lambda_r gives
\* ESBELTA; the decision is taken on the unrounded values.
C1_ReglaDeElemento ==
    salida.op = "_clasificar_elemento" =>
        LET l  == entrada.lambda
            lp == entrada.lambda_p
            lr == entrada.lambda_r
            cl == salida.r.clase
        IN  /\ (cl = "COMPACTA") <=> (lp # None /\ l <= lp)
            /\ (cl = "NO_COMPACTA") <=> (~(lp # None /\ l <= lp) /\ l <= lr)
            /\ (cl = "ESBELTA") <=> (~(lp # None /\ l <= lp) /\ l > lr)
            /\ (lp # None /\ l = lp) => cl = "COMPACTA"
            /\ (lp # None /\ lp < l) => cl # "COMPACTA"
            /\ (l = lr) => cl = "NO_COMPACTA"
            /\ (l > lr) => cl = "ESBELTA"

\* An element above lambda_r whose reported (rounded) lambda equals the
\* reported lambda_r, classified ESBELTA.
C1_Testigo ==
    /\ salida.op = "_clasificar_elemento"
    /\ entrada.lambda > entrada.lambda_r
    /\ salida.r.lambda = salida.r.lambda_r
    /\ salida.r.clase = "ESBELTA"

\* Largest rank among the classes of the elements (0 when there is none).
PeorRango(elementos) ==
    IF DOMAIN elementos = {} THEN 0
    ELSE CHOOSE r \in 0..2 :
             /\ \E n \in DOMAIN elementos : Rango(elementos[n].clase) = r
             /\ \A n \in DOMAIN elementos : Rango(elementos[n].clase) <= r

\* C2: the overall class returned by clasificar_seccion is the worst class
\* among the classified elements (ESBELTA > NO_COMPACTA > COMPACTA), es_esbelta
\* holds iff some element is ESBELTA, and a section with no classified element
\* is reported COMPACTA.
C2_ClasePeorElemento ==
    clasificacion.ok =>
        /\ clasificacion.clase_seccion \in {"COMPACTA", "NO_COMPACTA", "ESBELTA"}
        /\ Rango(clasificacion.clase_seccion) = PeorRango(clasificacion.elementos)
        /\ clasificacion.es_esbelta <=>
               \E n \in DOMAIN clasificacion.elementos :
                   clasificacion.elementos[n].clase = "ESBELTA"
        /\ DOMAIN clasificacion.elementos = {} =>
               clasificacion.clase_seccion = "COMPACTA"

\* A section with a compact flange and a slender web, reported ESBELTA.
C2_Testigo ==
    /\ clasificacion.ok
    /\ DOMAIN clasificacion.elementos = {"ala", "alma"}
    /\ clasificacion.elementos["ala"].clase = "COMPACTA"
    /\ clasificacion.elementos["alma"].clase = "ESBELTA"
    /\ clasificacion.clase_seccion = "ESBELTA"

\* C3: when the section is not ESBELTA, calcular_Q returns Q = Qs = Qa = 1.0
\* for every supplied Fcr (also none) with no reduction formula evaluated, and
\* compresion reports Q = Qs = Qa = 1.0 with iter_Q = 0 and computes the final
\* Fcr with Q = 1.0.
C3_SinEsbeltezQEsUno ==
    (clasificacion.ok /\ ~clasificacion.es_esbelta) =>
        /\ pc \in {"paso7", "fin", "error"} =>
               /\ resultados.Q = U /\ resultados.Qs = U /\ resultados.Qa = U
               /\ resultados.iter_Q = 0
               /\ Q_info = SinQ
        /\ pc = "fin" =>
               resultados.Fcr = Round2(_calcular_Fcr(PandeoGlobal(args).Fe,
                                                     args.Fy, U))
        /\ salida.op = "calcular_Q" =>
               /\ salida.r.Q = U /\ salida.r.Qs = U /\ salida.r.Qa = U
               /\ salida.r.notas = <<"seccion_no_esbelta">>

\* A non-slender section whose call ended and for which calcular_Q was given
\* a critical stress.
C3_Testigo ==
    /\ clasificacion.ok /\ ~clasificacion.es_esbelta
    /\ pc = "fin"
    /\ resultados.Q = U
    /\ salida.op = "calcular_Q" /\ salida.Fcr # None /\ salida.r.Q = U

Contiene(notas, nota) == \E i \in 1..Len(notas) : notas[i] = nota

\* The Q loop of the call is over (the note of PASO 6.5 is written or the
\* call has failed).
BucleTerminado == clasificacion.es_esbelta /\ pc \in {"paso7", "fin", "error"}

\* C4: for a slender section and any cap max_iter_Q and tolerance tol_Q the Q
\* loop ends after at most max_iter_Q iterations, either converged (relative
\* change below tol_Q at the iteration where it stops) or reported
\* non-converged with the cap exhausted, and the reported iter_Q is the number
\* of iterations performed, 1 <= iter_Q <= max_iter_Q.
C4_BucleQAcotado ==
    /\ (clasificacion.es_esbelta /\ pc = "bucleQ") =>
           /\ iter_Q <= args.max_iter_Q
           /\ iter_Q = 0 => Q_actual = U
    /\ BucleTerminado =>
           /\ resultados.iter_Q = iter_Q
           /\ 1 <= iter_Q /\ iter_Q <= args.max_iter_Q
           /\ error_relativo # None
           /\ \/ /\ error_relativo < args.tol_Q
                 /\ Contiene(resultados.advertencias, "Factor_Q_convergio")
                 /\ ~Contiene(resultados.advertencias,
                              "ADVERTENCIA_Factor_Q_no_convergio")
              \/ /\ error_relativo >= args.tol_Q
                 /\ iter_Q = args.max_iter_Q
                 /\ Contiene(resultados.advertencias,
                             "ADVERTENCIA_Factor_Q_no_convergio")
                 /\ ~Contiene(resultados.advertencias, "Factor_Q_convergio")

\* The loop left at its cap with the relative change never below tol_Q.
CapAgotadoSinConverger ==
    /\ BucleTerminado
    /\ iter_Q = args.max_iter_Q
    /\ error_relativo = None \/ error_relativo >= args.tol_Q

\* C5: when the Q iteration reaches its cap without the relative change
\* falling below the tolerance, compresion does not abort: it appends the
\* non-convergence warning, keeps the last iterate as Q (with its Qs, Qa) and
\* computes Fcr, Pn, Pd from it; the warning is present iff the loop ended
\* unconverged.
C5_NoConvergenciaNoFatal ==
    /\ (CapAgotadoSinConverger /\ args.props.familia \in {"DOBLE_T", "CANAL", "ANGULAR"}) =>
           /\ pc # "error"
           /\ Contiene(resultados.advertencias, "ADVERTENCIA_Factor_Q_no_convergio")
           /\ resultados.Q = Q_info.Q
           /\ resultados.Qs = Q_info.Qs
           /\ resultados.Qa = Q_info.Qa
           /\ pc = "fin" =>
                  /\ resultados.Fcr = Round2(_calcular_Fcr(PandeoGlobal(args).Fe,
                                                           args.Fy, Q_info.Q))
                  /\ resultados.Pn # None /\ resultados.Pd # None
    /\ pc \in {"paso7", "fin"} =>
           (Contiene(resultados.advertencias, "ADVERTENCIA_Factor_Q_no_convergio")
               <=> (clasificacion.es_esbelta /\ error_relativo >= args.tol_Q))

\* An I-shape with a slender flange and a web that is not slender.
AlaEsbeltaAlmaNo ==
    /\ clasificacion.ok
    /\ args.props.familia = "DOBLE_T"
    /\ clasificacion.elementos["ala"].clase = "ESBELTA"
    /\ clasificacion.elementos["alma"].clase # "ESBELTA"

\* C6: for an I-shape with a slender flange and a web that is not slender,
\* compresion with the defaults max_iter_Q = 5, tol_Q = 0.01 ends the Q loop
\* converged (no non-convergence warning, iter_Q <= 5), and its final Q equals
\* what a single call of calcular_Q returns for any externally supplied Fcr.
C6_AlaEsbeltaConverge ==
    (/\ AlaEsbeltaAlmaNo
     /\ args.max_iter_Q = MAX_ITER_Q_DEFECTO
     /\ args.tol_Q = TOL_Q_DEFECTO
     /\ pc \in {"paso7", "fin"}) =>
        /\ Contiene(resultados.advertencias, "Factor_Q_convergio")
        /\ ~Contiene(resultados.advertencias, "ADVERTENCIA_Factor_Q_no_convergio")
        /\ 1 <= resultados.iter_Q /\ resultados.iter_Q <= MAX_ITER_Q_DEFECTO
        /\ error_relativo < TOL_Q_DEFECTO
        /\ salida.op = "calcular_Q" => salida.r.Q = resultados.Q

\* The call of such a section ended with Q < 1 and calcular_Q, given a
\* critical stress, returned the same Q.
C6_Testigo ==
    /\ AlaEsbeltaAlmaNo
    /\ args.max_iter_Q = MAX_ITER_Q_DEFECTO /\ args.tol_Q = TOL_Q_DEFECTO
    /\ pc = "fin"
    /\ resultados.Q < U
    /\ salida.op = "calcular_Q" /\ salida.Fcr # None
    /\ salida.r.Q = resultados.Q

\* Some element that reduces Qs (flange, leg, stem, circular wall) is slender.
HayNoRigidizadoEsbelto(c) ==
    \E n \in DOMAIN c.elementos \cap {"ala", "pata", "stem", "pared"} :
        c.elementos[n].clase = "ESBELTA"

\* C7: for every section classified ESBELTA and every Fcr > 0 or none,
\* calcular_Q returns 0.35 <= Qs <= 0.76, 0 < Qa <= 1 and Q = Qs*Qa; the limit
\* on Qs also applies when no unstiffened element is slender (Qs = 1.0 becomes
\* 0.76), and Qa is not limited from below.
C7_LimitesDeFactores ==
    (salida.op = "calcular_Q" /\ salida.c.ok /\ salida.c.es_esbelta) =>
        /\ salida.r.ok
        /\ 350000 <= salida.r.Qs /\ salida.r.Qs <= 760000
        /\ 0 < salida.r.Qa /\ salida.r.Qa <= U
        /\ salida.r.Q = MulDiv(salida.r.Qs, salida.r.Qa, U)
        /\ ~HayNoRigidizadoEsbelto(salida.c) => salida.r.Qs = 760000
        /\ (/\ entrada.props.familia \in {"DOBLE_T", "CANAL"}
            /\ salida.c.elementos["alma"].clase = "ESBELTA"
            /\ entrada.Fcr # None) =>
               salida.r.Qa = _calcular_qa_alma(entrada.props.hw_tw, entrada.E,
                                 entrada.Fcr,
                                 entrada.props.d - 2 * entrada.props.tf,
                                 entrada.props.Ag)

\* A section whose only slender element is the web: Qs limited from 1.0 to
\* 0.76 and Qa below 0.35.
C7_Testigo ==
    /\ salida.op = "calcular_Q" /\ salida.c.ok /\ salida.c.es_esbelta
    /\ ~HayNoRigidizadoEsbelto(salida.c)
    /\ salida.r.Qs = 760000
    /\ salida.r.Qa < 350000
    /\ Contiene(salida.r.notas, "Qs_limitado_a_0.76")

C9_RamasIgualesEn225 ==
    salida.op = "_calcular_Fcr" =>
        /\ salida.r = IF RatioQFyFe(entrada.Fe, entrada.Fy, entrada.Q) <= 2250000
                      THEN FcrInelastico(entrada.Fe, entrada.Fy, entrada.Q)
                      ELSE FcrElastico(entrada.Fe)
        /\ RatioQFyFe(entrada.Fe, entrada.Fy, entrada.Q) = 2250000 =>
               Abs(FcrInelastico(entrada.Fe, entrada.Fy, entrada.Q)
                   - FcrElastico(entrada.Fe)) <= 1

\* C9 amended: the inelastic branch is used iff ratio <= 2.25 and the elastic
\* branch otherwise, and at ratio = 2.25 the inelastic value exceeds the
\* elastic one by less than 0.05 % of it.
C9_RamasDeFcr ==
    salida.op = "_calcular_Fcr" =>
        /\ salida.r = IF RatioQFyFe(entrada.Fe, entrada.Fy, entrada.Q) <= 2250000
                      THEN FcrInelastico(entrada.Fe, entrada.Fy, entrada.Q)
                      ELSE FcrElastico(entrada.Fe)
        /\ RatioQFyFe(entrada.Fe, entrada.Fy, entrada.Q) = 2250000 =>
               /\ salida.r > FcrElastico(entrada.Fe)
               /\ (salida.r - FcrElastico(entrada.Fe)) * 10000
                      < 5 * FcrElastico(entrada.Fe)

\* A call at ratio = 2.25 exactly, answered by the inelastic branch.
C9_Testigo ==
    /\ salida.op = "_calcular_Fcr"
    /\ RatioQFyFe(entrada.Fe, entrada.Fy, entrada.Q) = 2250000
    /\ entrada.Q < U
    /\ salida.r = FcrInelastico(entrada.Fe, entrada.Fy, entrada.Q)

\* KLx/rx = KLy/ry and the torsional Fe above both flexural values.
EmpateFlexional ==
    /\ KxLx(args) * args.props.ry = KyLy(args) * args.props.rx
    /\ _fe_torsional(args.props.J, args.props.Cw, args.Kz, LzAjustado(args),
                     args.props.Ag, args.props.ro)
           > _fe_flexional(KxLx(args), args.props.rx)[1]

\* C10: for a DOBLE_T section the governing Fe reported by compresion is the
\* minimum of Fe over flexural-X, flexural-Y and torsional-Z buckling and
\* modo_pandeo is a mode whose Fe is that minimum; when KLx/rx = KLy/ry and the
\* torsional Fe exceeds both, the governing mode is flexural with the common
\* flexural Fe.
C10_FeMinimoDeTresModos ==
    (args.props.familia = "DOBLE_T" /\ pc = "fin") =>
        /\ DOMAIN resultados.modos_Fe
               = {"Flexional_X", "Flexional_Y", "Torsional_Z"}
        /\ resultados.modos_Fe["Flexional_X"]
               = Round2(_fe_flexional(KxLx(args), args.props.rx)[1])
        /\ resultados.modos_Fe["Flexional_Y"]
               = Round2(_fe_flexional(KyLy(args), args.props.ry)[1])
        /\ resultados.modos_Fe["Torsional_Z"]
               = Round2(_fe_torsional(args.props.J, args.props.Cw, args.Kz,
                                      LzAjustado(args), args.props.Ag,
                                      args.props.ro))
        /\ \A m \in DOMAIN resultados.modos_Fe :
               resultados.Fe <= resultados.modos_Fe[m]
        /\ resultados.modo_pandeo \in DOMAIN resultados.modos_Fe
        /\ resultados.modos_Fe[resultados.modo_pandeo] = resultados.Fe
        /\ EmpateFlexional =>
               /\ resultados.modo_pandeo \in {"Flexional_X", "Flexional_Y"}
               /\ resultados.Fe = resultados.modos_Fe["Flexional_X"]
               /\ resultados.Fe = resultados.modos_Fe["Flexional_Y"]

\* A finished DOBLE_T call in the tie case, governed by Flexional_X.
C10_Testigo ==
    /\ args.props.familia = "DOBLE_T" /\ pc = "fin"
    /\ EmpateFlexional
    /\ resultados.modo_pandeo = "Flexional_X"
    /\ resultados.modos_Fe["Torsional_Z"] > resultados.Fe

\* Number of entries of notas equal to nota.
Cuenta(notas, nota) == Cardinality({i \in 1..Len(notas) : notas[i] = nota})

\* H is available and positive and the shear-centre offset xo is positive.
FormaCerradaAplicable ==
    args.props.H # None /\ args.props.H > 0 /\ args.props.xo > 0

\* C11: for a channel compresion uses the closed-form coupled
\* flexural-torsional Fe only when H is available and positive and xo is
\* positive; otherwise it puts the flexural Fe_y in the place of the
\* flexural-torsional mode and records that once in advertencias; in both
\* cases the governing Fe is min(Fe_x, Fe_yz) and modo_pandeo names a mode of
\* that value.
C11_CanalFlexoTorsional ==
    (args.props.familia = "CANAL" /\ pc = "fin") =>
        /\ DOMAIN resultados.modos_Fe = {"Flexional_X", "Flexo_torsional_YZ"}
        /\ resultados.modos_Fe["Flexional_X"]
               = Round2(_fe_flexional(KxLx(args), args.props.rx)[1])
        /\ FormaCerradaAplicable =>
               /\ resultados.modos_Fe["Flexo_torsional_YZ"]
                      = Round2(_fe_flexotorsional_canal(
                            _fe_flexional(KyLy(args), args.props.ry)[1],
                            _fe_torsional(args.props.J, args.props.Cw, args.Kz,
                                          LzAjustado(args), args.props.Ag,
                                          args.props.ro),
                            args.props.H))
               /\ Cuenta(resultados.advertencias, "xo_H_no_disponibles") = 0
        /\ ~FormaCerradaAplicable =>
               /\ resultados.modos_Fe["Flexo_torsional_YZ"]
                      = Round2(_fe_flexional(KyLy(args), args.props.ry)[1])
               /\ Cuenta(resultados.advertencias, "xo_H_no_disponibles") = 1
        /\ \A m \in DOMAIN resultados.modos_Fe :
               resultados.Fe <= resultados.modos_Fe[m]
        /\ resultados.modo_pandeo \in DOMAIN resultados.modos_Fe
        /\ resultados.modos_Fe[resultados.modo_pandeo] = resultados.Fe

\* A finished channel call without shear-centre offset: Fe_y stands for the
\* flexural-torsional mode, which governs, and the warning is recorded.
C11_Testigo ==
    /\ args.props.familia = "CANAL" /\ pc = "fin"
    /\ ~FormaCerradaAplicable
    /\ resultados.modo_pandeo = "Flexo_torsional_YZ"
    /\ Cuenta(resultados.advertencias, "xo_H_no_disponibles") = 1

\* max(Kx*Lx, Ky*Ly, Kz*Lz) of the call (mm), Lz being max(Lx, Ly) when it
\* is not supplied.
LongitudEfectivaMayor ==
    Max2(Max2(MulDiv(args.Kx, args.Lx, 1000), MulDiv(args.Ky, args.Ly, 1000)),
         MulDiv(args.Kz,
                IF args.Lz = None THEN Max2(args.Lx, args.Ly) ELSE args.Lz,
                1000))

\* C12: for a single angle compresion evaluates one flexural mode, about the
\* minor principal axis (radius iv), with the effective length
\* max(Kx*Lx, Ky*Ly, Kz*Lz), Lz being max(Lx, Ly) when not supplied; that
\* mode always governs.
C12_AngularUnSoloModo ==
    (args.props.familia = "ANGULAR" /\ pc = "fin") =>
        /\ DOMAIN resultados.modos_Fe = {"Flexional_iv"}
        /\ resultados.modo_pandeo = "Flexional_iv"
        /\ resultados.Lz = (IF args.Lz = None THEN Max2(args.Lx, args.Ly)
                            ELSE args.Lz)
        /\ resultados.Fe
               = Round2(_fe_flexional(LongitudEfectivaMayor, args.props.iv)[1])
        /\ resultados.modos_Fe["Flexional_iv"] = resultados.Fe
        /\ resultados.esbeltez_max
               = Redondear(MulDiv(LongitudEfectivaMayor, U, args.props.iv),
                           10000)

\* A finished angle call without Lz in which Kz*Lz, with the default Lz, is
\* the largest effective length.
C12_Testigo ==
    /\ args.props.familia = "ANGULAR" /\ pc = "fin"
    /\ args.Lz = None
    /\ LongitudEfectivaMayor > Max2(MulDiv(args.Kx, args.Lx, 1000),
                                    MulDiv(args.Ky, args.Ly, 1000))
    /\ resultados.modo_pandeo = "Flexional_iv"

\* The families compresion implements in PASO 7.
FamiliaImplementada == args.props.familia \in {"DOBLE_T", "CANAL", "ANGULAR"}

\* The maximum KL/r of the call (millionths): the larger of the two flexural
\* slendernesses, or the single slenderness about iv for an angle.
EsbeltezMaxima ==
    IF args.props.familia = "ANGULAR"
    THEN MulDiv(LongitudEfectivaMayor, U, args.props.iv)
    ELSE Max2(MulDiv(MulDiv(args.Kx, args.Lx, 1000), U, args.props.rx),
              MulDiv(MulDiv(args.Ky, args.Ly, 1000), U, args.props.ry))

\* The area or a radius that the Fe formulas of the family divide by is 0.0.
DivisorNulo ==
    IF args.props.familia = "ANGULAR" THEN args.props.iv = 0
    ELSE \/ args.props.rx = 0 \/ args.props.ry = 0
         \/ args.props.Ag = 0 \/ args.props.ro = 0

FeGobernante ==
    IF args.props.familia = "ANGULAR"
    THEN _fe_flexional(LongitudEfectivaMayor, args.props.iv)[1]
    ELSE Min2(_fe_flexional(KxLx(args), args.props.rx)[1],
              IF args.props.familia = "DOBLE_T"
              THEN Min2(_fe_flexional(KyLy(args), args.props.ry)[1],
                        _fe_torsional(args.props.J, args.props.Cw, args.Kz,
                                      LzAjustado(args), args.props.Ag,
                                      args.props.ro))
              ELSE IF FormaCerradaAplicable
              THEN _fe_flexotorsional_canal(
                       _fe_flexional(KyLy(args), args.props.ry)[1],
                       _fe_torsional(args.props.J, args.props.Cw, args.Kz,
                                     LzAjustado(args), args.props.Ag,
                                     args.props.ro),
                       args.props.H)
              ELSE _fe_flexional(KyLy(args), args.props.ry)[1])

\* The result reports Fcr, Pn = Fcr*A and Pd = 0.90*Pn for the critical
\* stress Fcr (kPa), each rounded to 2 decimals (MPa, kN).
ReportaResistencias(Fcr) ==
    /\ resultados.Fcr = Redondear(Fcr, 10)
    /\ resultados.Pn = Redondear(Fcr * args.props.Ag, 100)
    /\ resultados.Pd = Redondear((9 * (Fcr * args.props.Ag)) \div 10, 100)
    /\ Abs(10 * resultados.Pd - 9 * resultados.Pn) <= 1000

\* The two-regime critical stress for Fe, Fy and Q (kPa, millionths).
FcrDosRegimenes(Fe, Fy, Q) ==
    IF MulDiv(MulDiv(Q, Fy, U), U, Fe) <= 2250000
    THEN MulDiv(Pow0658(MulDiv(MulDiv(Q, Fy, U), U, Fe)), MulDiv(Q, Fy, U), U)
    ELSE MulDiv(877, Fe, 1000)

\* C14: for every successful compresion call Pn = Fcr*A and Pd = 0.90*Pn,
\* Fcr being the two-regime critical stress for the final Q and the governing
\* Fe; for a COMPACTA I-shape Q is 1.0 and the reported Pn and Pd are the
\* direct evaluation of the formulas to 2 decimals.
C14_ResistenciaDeDiseno ==
    pc = "fin" =>
        /\ ReportaResistencias(FcrDosRegimenes(FeGobernante, args.Fy,
                                               resultados.Q))
        /\ (args.props.familia = "DOBLE_T"
                /\ resultados.clase_seccion = "COMPACTA") =>
               /\ resultados.Q = U
               /\ resultados.Pn
                      = Redondear(FcrDosRegimenes(FeGobernante, args.Fy, U)
                                      * args.props.Ag, 100)

\* A finished call on a slender section: Q below 1.0 enters Fcr, Pn and Pd.
C14_Testigo ==
    /\ pc = "fin"
    /\ resultados.Q < U
    /\ resultados.Pn > 0
    /\ resultados.Pd < resultados.Pn

\* C15: compresion aborts, before any capacity is computed, whenever a
\* geometric property required for the family of the section is missing in
\* the tabulated data; it never returns a result computed from an absent
\* required property.
C15_PropiedadAusenteEsFatal ==
    (args.ausentes \cap _REQUERIDAS(args.props.familia) # {}) =>
        /\ pc # "fin"
        /\ resultados.Pn = None /\ resultados.Pd = None

\* The types clasificar_seccion and calcular_Q name as valid.
TipoEnLista ==
    args.props.tipo \in {"W", "M", "HP", "S", "IPE", "IPN", "IPB", "IPBl",
                         "IPBv", "C", "MC", "UPN", "L", "T", "WT", "MT", "ST",
                         "TUBO CIRC.", "PIPE", "TUBO CUAD.", "TUBO RECT.", "HSS"}

\* C16: a family tag outside a component's closed set is always fatal:
\* clasificar_seccion and calcular_Q raise for a type outside their list, and
\* compresion raises for every family other than DOBLE_T, CANAL and ANGULAR,
\* also when the section is slender and the Q iteration has already run; no
\* result is returned in such a case.
C16_FamiliaFueraDelConjunto ==
    /\ (~TipoEnLista /\ salida.op = "calcular_Q") =>
           ~salida.c.ok /\ ~salida.r.ok
    /\ ~FamiliaImplementada =>
           /\ pc # "fin"
           /\ resultados.Fe = None /\ resultados.Fcr = None
           /\ resultados.Pn = None /\ resultados.Pd = None

\* A slender tee: the Q iteration has run and converged, and the call has
\* ended in the error of PASO 7.
C16_Testigo ==
    /\ args.props.familia = "PERFIL_T"
    /\ clasificacion.es_esbelta
    /\ resultados.iter_Q >= 1
    /\ pc = "error"

\* A direct call on a type outside the list: both functions raise.
C16_TestigoTipo ==
    /\ ~TipoEnLista
    /\ salida.op = "calcular_Q"
    /\ ~salida.c.ok

\* The strong-axis values of an I-shape or channel before rounding, from the
\* arguments of the call: Lp, Lr, Mn of LTB and of FLB.
EjeFuerte ==
    LET p   == ExtraerFlexion(entrada.tipo, entrada.fila)
        Mp  == Momento(entrada.Fy, ZORespaldo(p.Zx, p.Sx, 112))
        rts == _rts(p.Iy, p.Cw, p.Sx)
        Lp  == _Lp(p.ry, E_ACERO, entrada.Fy)
        Lr  == _Lr(rts, E_ACERO, entrada.Fy, p.J, p.Sx, p.d - p.tf)
    IN  [Lp |-> Lp, Lr |-> Lr, Mp |-> Mp,
         Mn_ltb |-> _Mn_LTB(entrada.Lb * 1000, Lp, Lr, Mp, entrada.Fy, p.Sx,
                            entrada.Cb, E_ACERO, rts, p.J, p.d - p.tf)[1],
         Mn_flb |-> IF p.bf_2tf > 0
                    THEN _Mn_FLB(Mp, entrada.Fy, p.Sx, p.bf_2tf, E_ACERO)[1]
                    ELSE Mp]

FlexionDevuelta(familias) ==
    /\ pc = "fin"
    /\ entrada.op = "flexion"
    /\ FAMILIAS(entrada.tipo) \in familias

\* C17: for an I-shape or channel the strong-axis nominal capacity returned is
\* the smaller of the LTB and FLB capacities, the design capacity is 0.90
\* times it (both rounded to 0.01 kN.m), modo_x is the mode of the limit state
\* that gives the minimum and the LTB mode when both give the same, and the
\* LTB mode is Fluencia iff Lb <= Lp, LTB inelastico iff Lp < Lb <= Lr and
\* LTB elastico iff Lb > Lr.
C17_EjeFuerteMinimoLTBFLB ==
    FlexionDevuelta({"DOBLE_T", "CANAL"}) =>
        LET f  == EjeFuerte
            Lb == entrada.Lb * 1000
        IN  /\ resultados.Mnx = Min2(resultados.Mn_ltb, resultados.Mn_flb)
            /\ resultados.Mnx = Redondear(Min2(f.Mn_ltb, f.Mn_flb), 10)
            /\ PHI_B = 900000
            /\ 10 * resultados.Mdx
                   = Redondear(9 * Min2(f.Mn_ltb, f.Mn_flb), 100)
            /\ resultados.modo_x
                   = IF f.Mn_ltb <= f.Mn_flb THEN resultados.modo_ltb
                     ELSE resultados.modo_flb
            /\ (resultados.modo_ltb = "Fluencia") <=> (Lb <= f.Lp)
            /\ (resultados.modo_ltb = "LTB inelastico")
                   <=> (f.Lp < Lb /\ Lb <= f.Lr)
            /\ (resultados.modo_ltb = "LTB elastico") <=> (Lb > f.Lr)

\* An I-shape whose inelastic LTB capacity, raised by Cb, and whose compact
\* flange both give Mp: the mode returned is that of LTB.
C17_Testigo ==
    /\ FlexionDevuelta({"DOBLE_T"})
    /\ resultados.modo_ltb = "LTB inelastico"
    /\ resultados.modo_flb = "Ala compacta"
    /\ EjeFuerte.Mn_ltb = EjeFuerte.Mn_flb
    /\ resultados.modo_x = "LTB inelastico"

\* The second of two calls for the same I-shape has returned, both with Lb
\* beyond Lr and the second Lb not the shorter.
DosLlamadasElasticas ==
    /\ FlexionDevuelta({"DOBLE_T"})
    /\ salida.op = "flexion"
    /\ EjeFuerte.Lr < salida.Lb * 1000
    /\ salida.Lb <= entrada.Lb

\* C18: for an I-shape and two unbraced lengths Lr < Lb1 <= Lb2 (everything
\* else equal) the nominal capacity returned for Lb2 is not greater than the
\* one returned for Lb1.
C18_CapacidadNoCreceConLb ==
    DosLlamadasElasticas =>
        /\ resultados.Mnx <= salida.r.Mnx
        /\ resultados.Mn_ltb <= salida.r.Mn_ltb
        /\ resultados.Mdx <= salida.r.Mdx

\* Two elastic lengths, the second longer, and a capacity that dropped.
C18_Testigo ==
    /\ DosLlamadasElasticas
    /\ salida.Lb < entrada.Lb
    /\ resultados.modo_x = "LTB elastico"
    /\ salida.r.modo_x = "LTB elastico"
    /\ resultados.Mnx < salida.r.Mnx

\* The call of flexion() is over: the dict was returned or an exception left.
FlexionTerminada(familias) ==
    /\ pc \in {"fin", "error"}
    /\ entrada.op = "flexion"
    /\ FAMILIAS(entrada.tipo) \in familias

\* C19: for a round or square tube read through the extractor, flexion
\* returns a dict in which both axes share one capacity and one mode
\* (Mnx = Mny, Mdx = Mdy, modo_x = modo_y), and for the round tube the
\* capacity is Mp when d/t is at or below 0.07 * E / Fy and less beyond it.
C19_TuboEjesIguales ==
    FlexionTerminada({"TUBO_CIRC", "TUBO_CUAD"}) =>
        LET p  == ExtraerFlexion(entrada.tipo, entrada.fila)
            Mp == Momento(entrada.Fy, ZORespaldo(p.Zx, p.Sx, 112))
        IN  /\ pc = "fin"
            /\ resultados.Mnx # None
            /\ resultados.Mnx = resultados.Mny
            /\ resultados.Mdx = resultados.Mdy
            /\ resultados.modo_x = resultados.modo_y
            /\ p.familia = "TUBO_CIRC" =>
                   IF p.d_t <= MulDiv(70 * E_ACERO, U, entrada.Fy)
                   THEN resultados.Mnx = Reportar(Mp)
                   ELSE resultados.Mnx < Reportar(Mp)

\* The plastic moduli the call needs that the row leaves empty or zero:
\* Zx for every family but the angle, Zy when the weak axis is computed.
ZFaltantes ==
    LET p == ExtraerFlexion(entrada.tipo, entrada.fila)
    IN  (IF p.familia # "ANGULAR" /\ p.Zx = 0 THEN {"Zx"} ELSE {})
        \cup (IF /\ entrada.calcular_ambos_ejes
                 /\ p.familia \in {"DOBLE_T", "CANAL", "TUBO_RECT"}
                 /\ p.Zy = 0
              THEN {"Zy"} ELSE {})

AdvertenciaDe(Z) == IF Z = "Zx" THEN "Zx no disponible" ELSE "Zy no disponible"

\* C20: whenever a plastic modulus needed by the call is missing, zero or
\* NaN, flexion returns a dict whose plastic moment is Fy times the fallback
\* multiple of the elastic modulus (1.12 S, 1.5 S for tees) and whose
\* advertencias record the substitution.
C20_RespaldoDeZConAdvertencia ==
    (FlexionTerminada(FamiliasDelExtractor) /\ ZFaltantes # {}) =>
        LET p == ExtraerFlexion(entrada.tipo, entrada.fila)
            factor == IF p.familia = "PERFIL_T" THEN 150 ELSE 112
        IN  /\ pc = "fin"
            /\ \A Z \in ZFaltantes :
                   \E k \in DOMAIN resultados.advertencias :
                       resultados.advertencias[k] = AdvertenciaDe(Z)
            /\ "Zx" \in ZFaltantes =>
                   resultados.Mpx
                       = Reportar(Momento(entrada.Fy,
                                          MulDiv(factor, p.Sx, 100)))
            /\ "Zy" \in ZFaltantes =>
                   resultados.Mpy
                       = Reportar(Momento(entrada.Fy,
                                          MulDiv(factor, p.Sy, 100)))

\* A direct call of calcular_Q without Fcr has returned, for a section one
\* of whose stiffened elements (web of an I-shape or channel, wall of a
\* rectangular or square tube) is slender.
RigidizadoEsbeltoSinFcr ==
    /\ salida.op = "calcular_Q"
    /\ entrada.op = "calcular_Q"
    /\ entrada.Fcr = None
    /\ salida.c.ok
    /\ \/ /\ entrada.props.tipo \in TiposDobleT \cup TiposCanal
          /\ EsEsbelto(salida.c, "alma")
       \/ /\ entrada.props.tipo \in TiposTuboRect
          /\ EsEsbelto(salida.c, "flange") \/ EsEsbelto(salida.c, "web")

\* C25: calcular_Q called without Fcr for a section with a slender stiffened
\* element does not fail, returns Qa = 1.0 and records in its notes the
\* warning that Fcr was not provided, for I-shapes, channels and rectangular
\* or square tubes alike.
C25_SinFcrQaUnoConAdvertencia ==
    RigidizadoEsbeltoSinFcr =>
        /\ salida.r.ok
        /\ salida.r.Qa = U
        /\ Contiene(salida.r.notas, "ADVERTENCIA_Fcr_no_proporcionado")

\* The trial Fe of PASO 6.5 is bound: the section is slender and the Q loop
\* has been entered.
FeDePruebaCalculado == clasificacion.es_esbelta /\ Fe_temp # None

\* C30: for a slender I-shape, channel or angle the trial Fe of the Q
\* iteration is computed once before the loop, is the same at every later
\* step of the call whatever Q becomes, and equals the governing Fe of PASO 7
\* from which the final Fcr is computed (the Fe reported is its rounding).
C30_FeDePruebaUnicoYGobernante ==
    /\ []((FeDePruebaCalculado /\ FamiliaImplementada) =>
             /\ Fe_temp = PandeoGlobal(args).Fe
             /\ pc = "fin" => resultados.Fe = Round2(Fe_temp))
    /\ [][FeDePruebaCalculado => Fe_temp' = Fe_temp]_vars
    /\ [][(Fe_temp = None /\ Fe_temp' # None) => pc = "paso6.5"]_vars

\* A slender channel whose flexural-torsional mode governs, after two
\* iterations on Q.
C30_Testigo ==
    /\ FeDePruebaCalculado
    /\ pc = "fin"
    /\ args.props.familia = "CANAL"
    /\ resultados.modo_pandeo = "Flexo_torsional_YZ"
    /\ resultados.iter_Q >= 2
    /\ resultados.Q < U
    /\ resultados.Fe = Round2(Fe_temp)

\* C28: in every dict returned by flexion the fields Md, Mn and modo are those
\* of the axis asked for: Mdx, Mnx, modo_x with eje = 'fuerte' and the
\* weak-axis Mdy, Mny, modo_y with eje = 'debil', for every family and both
\* values of calcular_ambos_ejes.
C28_CamposDelEjePedido ==
    FlexionDevuelta(FamiliasDelExtractor) =>
        IF entrada.eje = "fuerte"
        THEN /\ resultados.Md = resultados.Mdx
             /\ resultados.Mn = resultados.Mnx
             /\ resultados.modo = resultados.modo_x
        ELSE /\ resultados.Md = resultados.Mdy
             /\ resultados.Mn = resultados.Mny
             /\ resultados.modo = resultados.modo_y


-----------------------------------------------------------------------------
(* Properties of interaccion()                                              *)

\* interaccion() returned the record of equation H1-1 (Pd > 0).
InteraccionCalculada ==
    /\ pc = "devuelto"
    /\ salida.op = "interaccion"
    /\ resultados.Pd \div 10 > 0

\* Mu / Md of one axis as it enters the ratio: 0 when Md is no positive number.
Cociente(Mu, Md) == IF Md = None \/ Md <= 0 THEN 0 ELSE MulDiv(Mu, U, Md)

\* C21: with Pd > 0 exactly one of the tags H1-1a and H1-1b is selected,
\* H1-1a iff Nu/Pd >= 0.2 (0.2 included); the ratio reported is
\* Nu/Pd + 8/9 (Mux/Mdx + Muy/Mdy) under H1-1a and
\* Nu/(2 Pd) + (Mux/Mdx + Muy/Mdy) under H1-1b, rounded to four decimals.
C21_EcuacionH1 ==
    InteraccionCalculada =>
        LET Pd  == resultados.Pd \div 10
            NuPd == MulDiv(salida.Nu, U, Pd)
            M   == Cociente(salida.Mux, salida.res_flex.Mdx)
                     + Cociente(salida.Muy, salida.res_flex.Mdy)
        IN  /\ salida.r.ecuacion \in {"H1-1a", "H1-1b"}
            /\ salida.r.ecuacion = "H1-1a" <=> 5 * salida.Nu >= Pd
            /\ salida.r.ecuacion = "H1-1a" =>
                   salida.r.ratio = Redondear(NuPd + MulDiv(8, M, 9), 100)
            /\ salida.r.ecuacion = "H1-1b" =>
                   salida.r.ratio = Redondear(MulDiv(NuPd, 1, 2) + M, 100)

\* Nu/Pd exactly 0.2 with bending on the strong axis: H1-1a.
C21_Testigo ==
    /\ InteraccionCalculada
    /\ 5 * salida.Nu = resultados.Pd \div 10
    /\ salida.Mux > 0
    /\ salida.res_flex.Mdx > 0
    /\ salida.r.ecuacion = "H1-1a"

\* C22 as stated: cumple is true iff the ratio reported in the same record
\* is <= 1.0.
C22_CumpleSegunRatioReportado ==
    pc = "devuelto" =>
        (salida.r.cumple <=> (salida.r.ratio # None /\ salida.r.ratio <= U))

\* C22: cumple is true iff Pd > 0 and the ratio before rounding is <= 1.0;
\* the ratio reported is that ratio rounded to four decimals, so cumple
\* implies a reported ratio <= 1.0 and a reported ratio < 1.0 implies cumple.
C22_CumpleSegunRatioExacto ==
    pc = "devuelto" =>
        LET Pd == resultados.Pd \div 10
            ratio == RatioH1(salida.Nu, Pd,
                             Cociente(salida.Mux, salida.res_flex.Mdx),
                             Cociente(salida.Muy, salida.res_flex.Mdy))
        IN  /\ salida.r.cumple <=> (Pd > 0 /\ ratio <= U)
            /\ salida.r.cumple =>
                   salida.r.ratio # None /\ salida.r.ratio <= U
            /\ salida.r.ratio # None /\ salida.r.ratio < U => salida.r.cumple

\* A ratio just above 1.0 reported as 1.0 with cumple false.
C22_Testigo ==
    /\ InteraccionCalculada
    /\ salida.r.ratio = U
    /\ ~salida.r.cumple

\* C23: when the Pd obtained is <= 0 no result record is returned (the call
\* is aborted with an error).
C23_PdNoPositivoEsFatal ==
    pc = "devuelto" => resultados.Pd \div 10 > 0

\* Warnings of flexion() saying that the weak axis is not computed.
AvisosSinEjeDebil == {"Perfil T: solo eje fuerte"}

\* C29: for each axis with a nonzero demand either Mu/Md enters the ratio
\* or, Md being NaN or not positive, the advertencias hold a warning about
\* the missing design moment.
C29_DemandaNoDescartada ==
    InteraccionCalculada =>
        /\ salida.Mux # 0 =>
               \/ salida.res_flex.Mdx > 0 /\ salida.r.Mux_Mdx > 0
               \/ /\ salida.res_flex.Mdx <= 0
                  /\ \E i \in DOMAIN salida.r.advertencias :
                        salida.r.advertencias[i] = "Mdx no disponible"
        /\ salida.Muy # 0 =>
               \/ salida.res_flex.Mdy > 0 /\ salida.r.Muy_Mdy > 0
               \/ /\ salida.res_flex.Mdy <= 0
                  /\ \E i \in DOMAIN salida.r.advertencias :
                        salida.r.advertencias[i] \in AvisosSinEjeDebil

-----------------------------------------------------------------------------
(* Properties of the GestorBaseDatos and of calls in sequence               *)

\* The table of the base that is active.
TablaActiva == IF gestor.db_activa = AISC THEN TablaAISC ELSE TablaCIRSOC

\* The rows of the active table that a search for nombre and tipo matches.
FilasBuscadas(nombre, tipo) ==
    {i \in DOMAIN TablaActiva :
        /\ TablaActiva[i].PERFIL = nombre
        /\ tipo = SinTipo \/ TablaActiva[i].Tipo = tipo}

\* C26: obtener_datos_perfil raises when no row of the active base matches
\* the designation (and the type, when given); otherwise it returns the
\* first matching row, with the ambiguity warning iff several rows match a
\* search without type (so none when exactly one row matches).
C26_BusquedaDePerfil ==
    salida.op = "obtener_datos_perfil" =>
        LET filas == FilasBuscadas(entrada.nombre, entrada.tipo)
        IN  /\ filas = {} => salida.error = "ValueError"
            /\ filas # {} =>
                   /\ salida.error = ""
                   /\ \E i \in filas :
                         /\ \A j \in filas : i <= j
                         /\ salida.fila = TablaActiva[i]
            /\ salida.advertencia <=>
                   (entrada.tipo = SinTipo /\ Cardinality(filas) > 1)

\* '200' without type in CIRSOC: two rows, the first returned with the warning.
C26_Testigo ==
    /\ salida.op = "obtener_datos_perfil"
    /\ entrada.tipo = SinTipo
    /\ Cardinality(FilasBuscadas(entrada.nombre, entrada.tipo)) = 2
    /\ salida.fila.Tipo = "IPE"
    /\ salida.advertencia

\* The base a name of cambiar_base stands for, whatever its case.
BaseNombrada(nombre) ==
    IF nombre \in {AISC, <<"a", "i", "s", "c">>} THEN AISC
    ELSE IF nombre \in {CIRSOC, <<"C", "i", "r", "s", "o", "c">>} THEN CIRSOC
    ELSE <<>>

\* C27: the active base is always 'AISC' or 'CIRSOC', 'CIRSOC' before any
\* call; cambiar_base with the name of a base in any case makes that base
\* active, with any other name it raises ValueError and the active base
\* stays the one before the call.
C27_BaseActivaValida ==
    /\ gestor.db_activa \in {AISC, CIRSOC}
    /\ entrada = SinSalida => gestor.db_activa = CIRSOC
    /\ salida.op = "cambiar_base" =>
           IF BaseNombrada(entrada.nombre) # <<>>
           THEN /\ salida.error = ""
                /\ gestor.db_activa = BaseNombrada(entrada.nombre)
           ELSE /\ salida.error = "ValueError"
                /\ gestor.db_activa = entrada.base

\* 'aisc' in lower case made AISC active.
C27_Testigo ==
    /\ salida.op = "cambiar_base"
    /\ entrada.nombre = <<"a", "i", "s", "c">>
    /\ entrada.base = CIRSOC
    /\ gestor.db_activa = AISC

\* 'OTRA' rejected while AISC was active.
C27_TestigoRechazo ==
    /\ salida.op = "cambiar_base"
    /\ entrada.nombre = <<"O", "T", "R", "A">>
    /\ entrada.base = AISC
    /\ gestor.db_activa = AISC

=============================================================================
